---- MODULE Spec2Model ----
(***************************************************************************)
(* A model of ff_toolbox's PointsRankingMapper                             *)
(* (src/src/model/math/points_ranking_mapper.py) and, further down, of its *)
(* Draft, Roster and SimplePickSuggestor (src/src/ff_toolbox/model).       *)
(*                                                                         *)
(* Numbers.  The program computes in IEEE doubles.  The model computes in  *)
(* exact rationals extended with the three special doubles the program     *)
(* can produce (nan, +inf, -inf): a number is a record                     *)
(* [k |-> "num", n |-> numerator, d |-> denominator > 0] in lowest terms,  *)
(* a special is [k |-> "nan" | "pinf" | "ninf", n |-> 0, d |-> 1].         *)
(* The three library functions that are not rational (np.sqrt,             *)
(* scipy.stats.norm.cdf, scipy.stats.norm.ppf) are tabulated.              *)
(***************************************************************************)
EXTENDS Integers, Sequences, FiniteSets, TLC

(***************************************************************************)
(* Bounds of the model.                                                    *)
(***************************************************************************)
\* longest generated points table
MaxLen == 3
\* generated tables hold the integer points 0..MaxPts
MaxPts == 2
\* concurrent callers of one mapper
NThreads == 2

(***************************************************************************)
(* Doubles: exact rationals and the special values.                        *)
(***************************************************************************)
Abs(x) == IF x < 0 THEN -x ELSE x

GCD(a, b) ==
  LET gcd[x \in Nat, y \in Nat] == IF y = 0 THEN x ELSE gcd[y, x % y]
  IN gcd[a, b]

NaN == [k |-> "nan", n |-> 0, d |-> 1]
PInf == [k |-> "pinf", n |-> 0, d |-> 1]
NInf == [k |-> "ninf", n |-> 0, d |-> 1]

\* the double n/d (d # 0), in lowest terms with a positive denominator
F(n, d) ==
  LET s == IF d < 0 THEN -1 ELSE 1
      g == GCD(Abs(n), Abs(d))
  IN [k |-> "num", n |-> (s * n) \div g, d |-> (s * d) \div g]

I(n) == [k |-> "num", n |-> n, d |-> 1]

IsNaN(a) == a.k = "nan"
IsNum(a) == a.k = "num"
IsInf(a) == a.k \in {"pinf", "ninf"}
\* -1, 0 or 1; never asked of a nan
Sign(a) ==
  CASE a.k = "pinf" -> 1
    [] a.k = "ninf" -> -1
    [] OTHER -> IF a.n > 0 THEN 1 ELSE IF a.n < 0 THEN -1 ELSE 0

FNeg(a) ==
  CASE a.k = "nan" -> NaN
    [] a.k = "pinf" -> NInf
    [] a.k = "ninf" -> PInf
    [] OTHER -> [k |-> "num", n |-> -a.n, d |-> a.d]

FAdd(a, b) ==
  CASE IsNaN(a) \/ IsNaN(b) -> NaN
    [] IsInf(a) /\ IsInf(b) -> IF a.k = b.k THEN a ELSE NaN
    [] IsInf(a) -> a
    [] IsInf(b) -> b
    [] OTHER ->
         LET g == GCD(a.d, b.d)
         IN F(a.n * (b.d \div g) + b.n * (a.d \div g), (a.d \div g) * b.d)

FSub(a, b) == FAdd(a, FNeg(b))

FMul(a, b) ==
  CASE IsNaN(a) \/ IsNaN(b) -> NaN
    [] IsInf(a) \/ IsInf(b) ->
         IF Sign(a) * Sign(b) = 0 THEN NaN
         ELSE IF Sign(a) * Sign(b) > 0 THEN PInf ELSE NInf
    [] OTHER ->
         LET g1 == GCD(Abs(a.n), b.d)
             g2 == GCD(Abs(b.n), a.d)
         IN F((a.n \div g1) * (b.n \div g2), (a.d \div g2) * (b.d \div g1))

\* numpy's division: x/0 is +-inf and 0/0 is nan (a warning, never an exception)
FDiv(a, b) ==
  CASE IsNaN(a) \/ IsNaN(b) -> NaN
    [] IsInf(a) /\ IsInf(b) -> NaN
    [] IsInf(a) -> IF Sign(b) >= 0 THEN a ELSE FNeg(a)
    [] IsInf(b) -> I(0)
    [] b.n = 0 -> IF a.n = 0 THEN NaN ELSE IF a.n > 0 THEN PInf ELSE NInf
    [] OTHER -> FMul(a, F(b.d, b.n))

\* every comparison with a nan is false
FLt(a, b) ==
  CASE IsNaN(a) \/ IsNaN(b) -> FALSE
    [] a.k = "pinf" \/ b.k = "ninf" -> FALSE
    [] a.k = "ninf" \/ b.k = "pinf" -> TRUE
    [] OTHER ->
         LET g == GCD(a.d, b.d)
         IN a.n * (b.d \div g) < b.n * (a.d \div g)

FEq(a, b) == ~IsNaN(a) /\ ~IsNaN(b) /\ a = b
FLe(a, b) == FLt(a, b) \/ FEq(a, b)
FGt(a, b) == FLt(b, a)
FGe(a, b) == FLe(b, a)

FAbs(a) == IF IsNaN(a) THEN NaN ELSE IF Sign(a) < 0 THEN FNeg(a) ELSE a

(***************************************************************************)
(* The library functions that leave the rationals, tabulated.              *)
(***************************************************************************)
\* floor of the square root of x >= 0, by bits from b down
RECURSIVE ISqrtBits(_, _, _)
ISqrtBits(x, r, b) ==
  IF b = 0 THEN r
  ELSE IF (r + b) * (r + b) <= x THEN ISqrtBits(x, r + b, b \div 2)
       ELSE ISqrtBits(x, r, b \div 2)

ISqrt(x) == ISqrtBits(x, 0, 16384)

\* floor(100^k * n / d) for 0 <= n and 0 < d, by long division two digits at a
\* time (the model's integers are 32 bits wide)
RECURSIVE FloorScaled(_, _, _)
FloorScaled(n, d, k) ==
  IF k = 0 THEN n \div d
  ELSE (n \div d) * 100^k + FloorScaled((n % d) * 100, d, k - 1)

\* np.sqrt: nan for a negative number (a warning, never an exception); exact on
\* the square of a rational, and otherwise rounded down to four decimals below
\* 1/100 and to two decimals from there on
NpSqrt(a) ==
  CASE IsNaN(a) -> NaN
    [] a.k = "pinf" -> PInf
    [] a.k = "ninf" -> NaN
    [] a.n < 0 -> NaN
    [] OTHER ->
         LET rn == ISqrt(a.n)
             rd == ISqrt(a.d)
         IN IF rn * rn = a.n /\ rd * rd = a.d THEN F(rn, rd)
            ELSE IF a.n * 100 < a.d
            THEN F(ISqrt(FloorScaled(a.n, a.d, 4)), 10000)
            ELSE F(ISqrt(FloorScaled(a.n, a.d, 2)), 100)

\* the standard normal CDF at 0, 1/4, 2/4, ..., 4, in thousandths
PhiTab ==
  <<500, 599, 691, 773, 841, 894, 933, 960, 977, 988, 994, 997, 999, 999,
    1000, 1000, 1000>>

\* scipy.stats.norm.cdf: the table's value at |z| rounded towards 0 to a quarter,
\* mirrored for z < 0; 0 and 1 at the infinities, nan at nan
NormCdf(z) ==
  CASE IsNaN(z) -> NaN
    [] z.k = "pinf" -> I(1)
    [] z.k = "ninf" -> I(0)
    [] OTHER ->
         LET q == (Abs(z.n) * 4) \div z.d
             i == IF q > 16 THEN 16 ELSE q
         IN IF z.n >= 0 THEN F(PhiTab[i + 1], 1000)
            ELSE F(1000 - PhiTab[i + 1], 1000)

\* scipy.stats.norm.ppf for p >= 1/2: the least quarter z whose tabulated CDF
\* reaches p; +inf at 1
PpfUpper(p) ==
  IF FEq(p, I(1)) THEN PInf
  ELSE LET i == CHOOSE j \in 0..16 :
                  /\ FGe(F(PhiTab[j + 1], 1000), p)
                  /\ \A h \in 0..(j - 1) : FLt(F(PhiTab[h + 1], 1000), p)
       IN F(i, 4)

NormPpf(p) ==
  CASE IsNaN(p) \/ IsInf(p) -> NaN
    [] FLt(p, I(0)) \/ FGt(p, I(1)) -> NaN
    [] FGe(p, F(1, 2)) -> PpfUpper(p)
    [] OTHER -> FNeg(PpfUpper(FSub(I(1), p)))

(***************************************************************************)
(* Arrays are sequences of doubles.                                        *)
(***************************************************************************)
\* the array is handed on in its own order
NpFlip_Identity(a) == a

NpFlip(a) == [i \in 1..Len(a) |-> a[Len(a) + 1 - i]]

\* numpy's binary_search_with_guess on a table of at most four knots, and on any
\* ascending table: the last j with xp[j] <= x, scanning from the left.  Asked
\* only for xp[1] <= x <= xp[Len(xp)].
RECURSIVE LinearSearch(_, _, _)
LinearSearch(x, xp, i) ==
  IF i <= Len(xp) /\ FGe(x, xp[i]) THEN LinearSearch(x, xp, i + 1) ELSE i - 1

\* np.interp at one x: nan stays nan, x beyond the last knot takes the last
\* value, x before the first knot the first value, a knot its own value, and
\* anything else the chord through the two knots around it
Interp1(x, xp, fp) ==
  LET len == Len(xp)
  IN CASE IsNaN(x) -> x
       [] FGt(x, xp[len]) -> fp[len]
       [] FLt(x, xp[1]) -> fp[1]
       [] OTHER ->
            LET j == LinearSearch(x, xp, 2)
            IN IF j = len THEN fp[j]
               ELSE IF FEq(xp[j], x) THEN fp[j]
               ELSE LET slope == FDiv(FSub(fp[j + 1], fp[j]),
                                      FSub(xp[j + 1], xp[j]))
                    IN FAdd(FMul(slope, FSub(x, xp[j])), fp[j])

NpInterp(xs, xp, fp) == [i \in 1..Len(xs) |-> Interp1(xs[i], xp, fp)]

RECURSIVE FSum(_)
FSum(a) == IF a = <<>> THEN I(0) ELSE FAdd(a[1], FSum(Tail(a)))

(***************************************************************************)
(* PointsRankingMapper.__init__                                            *)
(***************************************************************************)
\* the kind the TODO of line 18 announces, let in before it is implemented
ValidPointsDistTypes_WithGamma == {"gaussian", "gamma"}

ValidPointsDistTypes == {"gaussian"}

\* rolling(7, ...): the window's length
Window == 7
\* win_type="blackman": scipy.signal.windows.blackman(7), in hundredths
BlackmanWeights == <<0, 13, 63, 100, 63, 13, 0>>

\* the window is cut to the table at both ends: the weighted mean of the
\* points of the window that lie in the table
RollingBlackmanMean_PartialWindows(points) ==
  LET half == (Window - 1) \div 2
      n == Len(points)
      inside(i) == {w \in 1..Window : i - half + w - 1 \in 1..n}
  IN [i \in 1..n |->
        FDiv(FSum([w \in 1..Window |->
                     IF w \in inside(i)
                     THEN FMul(I(BlackmanWeights[w]), points[i - half + w - 1])
                     ELSE I(0)]),
             FSum([w \in 1..Window |->
                     IF w \in inside(i) THEN I(BlackmanWeights[w]) ELSE I(0)]))]

\* Series.rolling(7, win_type="blackman", center=True, closed="both").mean():
\* the weighted mean of the Window points centred on i, and nan wherever fewer
\* than Window points lie in that window (min_periods is the window's length;
\* closed is not used by a weighted window)
RollingBlackmanMean(points) ==
  LET half == (Window - 1) \div 2
      n == Len(points)
  IN [i \in 1..n |->
        IF i - half < 1 \/ i + half > n THEN NaN
        ELSE FDiv(FSum([w \in 1..Window |->
                          FMul(I(BlackmanWeights[w]), points[i - half + w - 1])]),
                  FSum([w \in 1..Window |-> I(BlackmanWeights[w])]))]

\* the undefined averages are filled with zero
FillNa_Zero(a, other) == [i \in 1..Len(a) |-> IF IsNaN(a[i]) THEN I(0) ELSE a[i]]

\* Series.fillna(other): other's value wherever a is nan
FillNa(a, other) == [i \in 1..Len(a) |-> IF IsNaN(a[i]) THEN other[i] ELSE a[i]]

SmoothedPoints(points) == FillNa(RollingBlackmanMean(points), points)

\* the sums of neighbouring smoothed points, not halved
PointsBins_NotHalved(sp) ==
  [i \in 1..(Len(sp) - 1) |-> FAdd(sp[i + 1], sp[i])]

\* np.add(smoothed[1:], smoothed[:-1]) / 2
PointsBins(sp) ==
  [i \in 1..(Len(sp) - 1) |-> FDiv(FAdd(sp[i + 1], sp[i]), I(2))]

\* np.array(range(1, n + 1))
Ranks(sp) == [i \in 1..Len(sp) |-> I(i)]

(***************************************************************************)
(* The queries, as functions of the mapper (self) and their arguments.     *)
(* A mapper is a record of its four fields.  A query's outcome is          *)
(* [status, value, work]: status "ok" or the exception raised; value the   *)
(* returned array as a sequence (a returned float is a sequence of one,    *)
(* and nothing is returned with an exception); work the computations the   *)
(* call started, in order.                                                 *)
(***************************************************************************)
Returned(v, w) == [status |-> "ok", value |-> v, work |-> w]
Raised(e, w) == [status |-> e, value |-> <<>>, work |-> w]

\* the ranks are not reversed with the points
points_to_rank_mean_RanksNotFlipped(self, points_means) ==
  NpInterp(points_means, NpFlip(self.smoothed_points), self.ranks)

points_to_rank_mean(self, points_means) ==
  NpInterp(points_means, NpFlip(self.smoothed_points), NpFlip(self.ranks))

\* the ranks are taken to count from 0
rank_to_points_mean_ZeroBased(self, rank_means) ==
  NpInterp(rank_means, [i \in 1..Len(self.ranks) |-> I(i - 1)],
           self.smoothed_points)

\* the points are reversed as they are for points_to_rank_mean
rank_to_points_mean_PointsFlipped(self, rank_means) ==
  NpInterp(rank_means, self.ranks, NpFlip(self.smoothed_points))

rank_to_points_mean(self, rank_means) ==
  NpInterp(rank_means, self.ranks, self.smoothed_points)

\* the boundaries are standardized with the sign turned: mean minus boundary
BinCdfs_MeanMinusBins(self, points_variance, points_mean) ==
  IF self.points_dist_type = "gaussian"
  THEN [i \in 1..Len(self.points_bins) |->
          NormCdf(FDiv(FSub(points_mean, self.points_bins[i]),
                       NpSqrt(points_variance)))]
  ELSE [i \in 1..(Len(self.smoothed_points) - 2) |-> I(0)]

\* lines 92-98: the CDF of the points distribution at every bin boundary
BinCdfs(self, points_variance, points_mean) ==
  IF self.points_dist_type = "gaussian"
  THEN [i \in 1..Len(self.points_bins) |->
          NormCdf(FDiv(FSub(self.points_bins[i], points_mean),
                       NpSqrt(points_variance)))]
  ELSE [i \in 1..(Len(self.smoothed_points) - 2) |-> I(0)]

\* np.diff is taken without the minus sign
RankProbs_DiffNotNegated(bin_cdfs) ==
  LET m == Len(bin_cdfs)
  IN [i \in 1..(m + 1) |->
        IF i = 1 THEN FSub(I(1), bin_cdfs[1])
        ELSE IF i = m + 1 THEN bin_cdfs[m]
        ELSE FSub(bin_cdfs[i], bin_cdfs[i - 1])]

\* lines 100-102: np.r_[1 - bin_cdfs[0], -np.diff(bin_cdfs), bin_cdfs[-1]]
RankProbs(bin_cdfs) ==
  LET m == Len(bin_cdfs)
  IN [i \in 1..(m + 1) |->
        IF i = 1 THEN FSub(I(1), bin_cdfs[1])
        ELSE IF i = m + 1 THEN bin_cdfs[m]
        ELSE FNeg(FSub(bin_cdfs[i], bin_cdfs[i - 1]))]

\* the squares are taken about the expectation of the rank probabilities
WeightedVariance_AboutExpectation(self, rank_probs, rank_mean) ==
  FSum([i \in 1..Len(self.ranks) |->
          FMul(FMul(FSub(self.ranks[i],
                         FSum([j \in 1..Len(self.ranks) |->
                                 FMul(self.ranks[j], rank_probs[j])])),
                    FSub(self.ranks[i],
                         FSum([j \in 1..Len(self.ranks) |->
                                 FMul(self.ranks[j], rank_probs[j])]))),
               rank_probs[i])])

\* lines 105-109: the sum of (rank - rank_mean)^2 * probability over the ranks
WeightedVariance(self, rank_probs, rank_mean) ==
  FSum([i \in 1..Len(self.ranks) |->
          FMul(FMul(FSub(self.ranks[i], rank_mean), FSub(self.ranks[i], rank_mean)),
               rank_probs[i])])

PointsToRankVarianceValue(self, points_variance, points_mean) ==
  WeightedVariance(self,
                   RankProbs(BinCdfs(self, points_variance, points_mean)),
                   points_to_rank_mean(self, <<points_mean>>)[1])

points_to_rank_variance(self, points_variance, points_mean) ==
  Returned(<<PointsToRankVarianceValue(self, points_variance, points_mean)>>,
           <<"standardize", "norm.cdf", "points_to_rank_mean">>)

\* lines 122-128: the error the search minimizes
PointsToRankVarianceError(self, points_variance, points_mean, target_rank_variance) ==
  FAbs(FSub(PointsToRankVarianceValue(self, points_variance, points_mean),
            target_rank_variance))

\* the points delta of one rank deviation is taken as the seed, not its square
InitialVarGuess_NotSquared(self, rank_variance, rank_mean) ==
  FSub(rank_to_points_mean(self, <<FAdd(rank_mean, NpSqrt(rank_variance))>>)[1],
       rank_to_points_mean(self, <<rank_mean>>)[1])

\* lines 132-135: the seed of the search
InitialVarGuess(self, rank_variance, rank_mean) ==
  LET delta == FSub(rank_to_points_mean(self,
                      <<FAdd(rank_mean, NpSqrt(rank_variance))>>)[1],
                    rank_to_points_mean(self, <<rank_mean>>)[1])
  IN FMul(delta, delta)

\* scp.optimize.minimize(..., method="Nelder-Mead", tol=1e-2) sets the search's
\* xatol and fatol to tol
Tol == F(1, 100)

\* the search's first simplex: the seed x0 and x0 * 1.05, or 0.00025 beside a
\* seed of 0
InitialSimplex(x0) ==
  <<x0, IF FEq(x0, I(0)) THEN F(1, 4000) ELSE FMul(x0, F(21, 20))>>

\* the test that ends the search: the simplex is within xatol and its values
\* within fatol (false when a value is nan)
\* (each difference is taken once)
SimplexConverged(sim, fsim) ==
  \E dx \in {FSub(sim[2], sim[1])}, df \in {FSub(fsim[1], fsim[2])} :
    \E adx \in {FAbs(dx)}, adf \in {FAbs(df)} : FLe(adx, Tol) /\ FLe(adf, Tol)

\* the errors at the points of a simplex
SimplexErrors(self, sim, points_mean, rank_variance) ==
  [i \in 1..2 |->
     PointsToRankVarianceError(self, sim[i], points_mean, rank_variance)]

\* the search at its first test: whether it ends there, and the points of the
\* simplex with the least error, one of which it then hands back
StartOf(sim, fsim) ==
  [converged |-> SimplexConverged(sim, fsim),
   best |-> {sim[i] : i \in {j \in 1..2 :
                               \A h \in 1..2 : FLe(fsim[j], fsim[h])}}]

\* the first test is followed from a seed of 0 (from another seed it turns on
\* more digits of the error than the tabulated functions carry)
MinimizeFrom(self, x0, points_mean, rank_variance) ==
  IF ~FEq(x0, I(0)) THEN [converged |-> FALSE, best |-> {}]
  ELSE StartOf(InitialSimplex(x0),
               SimplexErrors(self, InitialSimplex(x0), points_mean,
                             rank_variance))

\* the search of rank_to_points_variance(rank_variance, rank_mean) as it stands
\* at its first test
MinimizeAtStart(self, rank_variance, rank_mean) ==
  MinimizeFrom(self, InitialVarGuess(self, rank_variance, rank_mean),
               rank_to_points_mean(self, <<rank_mean>>)[1], rank_variance)

\* the results of a search that stood as start at its first test, when a search
\* that goes on may hand back any of later
ResultsAfter(start, later) ==
  IF start.converged THEN [success : {TRUE}, x : start.best] ELSE later

\* what the search of rank_to_points_variance(rank_variance, rank_mean) may hand
\* back: the best of its first simplex where it ends at its first test, and
\* otherwise anything of later (a search that goes on is not followed) but a
\* success at a point whose error is nan, since the search succeeds only by its
\* test, which no nan passes
MinimizeResultsOf(self, rank_variance, rank_mean, later) ==
  ResultsAfter(MinimizeAtStart(self, rank_variance, rank_mean),
               {r \in later :
                  r.success =>
                    ~IsNaN(PointsToRankVarianceError(
                             self, r.x,
                             rank_to_points_mean(self, <<rank_mean>>)[1],
                             rank_variance))})

\* what the searches of the first n entries may hand back
RECURSIVE IntervalSearchesTo(_, _, _, _, _)
IntervalSearchesTo(self, rank_means, rank_variances, later, n) ==
  IF n = 0 THEN {<<>>}
  ELSE {Append(rs, r) :
          rs \in IntervalSearchesTo(self, rank_means, rank_variances, later,
                                    n - 1),
          r \in MinimizeResultsOf(self, rank_variances[n], rank_means[n],
                                  later)}

\* what the searches of rank_confidence_intervals may hand back, entry by entry
\* (with shapes that differ no search is run, and one sequence stands for all)
IntervalSearches(self, rank_means, rank_variances, later) ==
  IF Len(rank_means) # Len(rank_variances)
  THEN {[i \in 1..Len(rank_means) |-> CHOOSE r \in later : r.success]}
  ELSE IntervalSearchesTo(self, rank_means, rank_variances, later,
                          Len(rank_means))

\* the search's last best point is returned whether or not it converged
rank_to_points_variance_BestEffort(self, rank_variance, rank_mean, result) ==
  Returned(<<result.x>>, <<"rank_to_points_mean", "minimize">>)

\* lines 137-150.  result is what scipy.optimize.minimize hands back:
\* [success, x], x the search's last best point.
rank_to_points_variance(self, rank_variance, rank_mean, result) ==
  IF ~result.success
  THEN Raised("RuntimeError", <<"rank_to_points_mean", "minimize">>)
  ELSE Returned(<<result.x>>, <<"rank_to_points_mean", "minimize">>)

\* the number of deviations is taken from the lower tail, (1 - confidence) / 2
IntervalRow_LowerTail(self, point_mean, point_stdev, confidence) ==
  IF self.points_dist_type = "gaussian"
  THEN LET stdevs == NormPpf(FDiv(FSub(I(1), confidence), I(2)))
           high_ranks == points_to_rank_mean(self,
                           <<FAdd(point_mean, FMul(point_stdev, stdevs))>>)
           low_ranks == points_to_rank_mean(self,
                          <<FSub(point_mean, FMul(point_stdev, stdevs))>>)
       IN <<high_ranks[1], low_ranks[1]>>
  ELSE <<I(0), I(0)>>

\* the two bounds of row i (lines 191-198), from the points mean and deviation
IntervalRow(self, point_mean, point_stdev, confidence) ==
  IF self.points_dist_type = "gaussian"
  THEN LET stdevs == NormPpf(FDiv(FAdd(I(1), confidence), I(2)))
           high_ranks == points_to_rank_mean(self,
                           <<FAdd(point_mean, FMul(point_stdev, stdevs))>>)
           low_ranks == points_to_rank_mean(self,
                          <<FSub(point_mean, FMul(point_stdev, stdevs))>>)
       IN <<high_ranks[1], low_ranks[1]>>
  ELSE <<I(0), I(0)>>

\* lines 176-199, the work behind the validation.  results[i] is what the
\* search of entry i hands back.
IntervalsOfValidated(self, rank_means, rank_variances, confidence, results) ==
  LET n == Len(rank_means)
      point_means == rank_to_points_mean(self, rank_means)
      solved == [i \in 1..n |->
                   rank_to_points_variance(self, rank_variances[i],
                                           rank_means[i], results[i])]
      failed == {i \in 1..n : solved[i].status # "ok"}
      solves(k) == [i \in 1..k |-> "rank_to_points_variance"]
  IN IF failed # {}
     THEN LET first == CHOOSE i \in failed : \A j \in failed : i <= j
          IN Raised(solved[first].status,
                    <<"rank_to_points_mean">> \o solves(first))
     ELSE Returned(
            [i \in 1..n |->
               IntervalRow(self, point_means[i],
                           NpSqrt(solved[i].value[1]), confidence)],
            <<"rank_to_points_mean">> \o solves(n)
              \o <<"norm.ppf", "points_to_rank_mean", "points_to_rank_mean">>)

\* the shapes are compared only once the means are converted
rank_confidence_intervals_LateShapeCheck(self, rank_means, rank_variances, confidence, results) ==
  IF ~(FLe(I(0), confidence) /\ FLe(confidence, I(1)))
  THEN Raised("ValueError", <<>>)
  ELSE IF Len(rank_means) # Len(rank_variances)
  THEN Raised("ValueError", <<"rank_to_points_mean">>)
  ELSE IntervalsOfValidated(self, rank_means, rank_variances, confidence, results)

\* the confidence is compared with < in place of <=
rank_confidence_intervals_StrictConfidence(self, rank_means, rank_variances, confidence, results) ==
  IF Len(rank_means) # Len(rank_variances)
  THEN Raised("ValueError", <<>>)
  ELSE IF ~(FLt(I(0), confidence) /\ FLt(confidence, I(1)))
  THEN Raised("ValueError", <<>>)
  ELSE IntervalsOfValidated(self, rank_means, rank_variances, confidence, results)

\* lines 152-199
rank_confidence_intervals(self, rank_means, rank_variances, confidence, results) ==
  IF Len(rank_means) # Len(rank_variances)
  THEN Raised("ValueError", <<>>)
  ELSE IF ~(FLe(I(0), confidence) /\ FLe(confidence, I(1)))
  THEN Raised("ValueError", <<>>)
  ELSE IntervalsOfValidated(self, rank_means, rank_variances, confidence, results)

(***************************************************************************)
(* The inputs the model draws.                                             *)
(***************************************************************************)
\* every sequence over S of length lo..hi
SeqsOf(S, lo, hi) == UNION {[1..m -> S] : m \in lo..hi}

\* the points tables: every table of 2..MaxLen integer points in 0..MaxPts, and
\* two tables long enough for the rolling window to cover their middle entry
\* (the second is not monotone until smoothed)
LongTables ==
  {[i \in 1..7 |-> I(<<20, 16, 14, 9, 8, 2, 1>>[i])],
   [i \in 1..7 |-> I(<<20, 15, 12, 9, 10, 3, 1>>[i])]}

Tables == SeqsOf({I(v) : v \in 0..MaxPts}, 2, MaxLen) \cup LongTables

DistTypes == {"gaussian", "gamma"}

\* points: the halves from -1/2 to MaxPts + 1/2, and points of the long tables
PointArgs ==
  {F(h, 2) : h \in (-1)..(2 * MaxPts + 1)} \cup {F(19, 2), I(10), I(21)}

\* ranks: the halves from 1/2 to MaxLen + 1/2, and ranks of the long tables
RankArgs ==
  {F(h, 2) : h \in 1..(2 * MaxLen + 1)} \cup {F(11, 2), I(7), I(8)}

\* arrays of one argument, and of two in ascending order
ArraysOf(S) ==
  {<<a>> : a \in S} \cup {p \in S \X S : FLt(p[1], p[2])}

PointArrays == ArraysOf(PointArgs)
RankArrays == ArraysOf(RankArgs)

VarianceArgs == {I(-1), I(0), F(1, 4), I(1), I(4)}
RankVarianceArgs == {I(0), I(1), I(4)}
RankMeanArgs == {I(1), F(3, 2), I(3)}

\* what scipy.optimize.minimize may hand back: the search is unconstrained,
\* so its last best point is any double
MinimizeXs == {I(-1), I(0), F(1, 4), I(1), I(4)}
MinimizeResults ==
  [success : {TRUE}, x : MinimizeXs] \cup [success : {FALSE}, x : {I(1), I(4)}]

ConfidenceArgs == {F(-1, 10), I(0), F(4, 5), I(1), F(11, 10)}
IntervalMeans == {<<>>, <<I(2)>>, <<F(5, 2)>>, <<I(1), I(2)>>}
IntervalVariances == {<<>>, <<I(0)>>, <<I(1)>>, <<I(1), F(1, 4)>>}
IntervalResults ==
  {[success |-> FALSE, x |-> I(1)]}
    \cup [success : {TRUE}, x : {I(-1), I(0), I(1), I(4)}]

(***************************************************************************)
(* The state: one mapper and its caller.                                   *)
(***************************************************************************)
VARIABLES
  constructed,        \* "none", "ok", or the exception __init__ raised
  raw_points,         \* the points table __init__ was given
  dist_type_arg,      \* the points_dist_type __init__ was given
  smoothed_points,    \* self._smoothed_points
  points_bins,        \* self._points_bins
  ranks,              \* self._ranks
  points_dist_type,   \* self._points_dist_type ("" while unset)
  pc,                 \* "idle", or "done" when a query has just ended
  call,               \* the query that ended: [op, args]
  searches,           \* what each scipy.optimize.minimize it ran handed back
  outcome,            \* and its outcome
  search,             \* the minimization in progress, followed step by step
  order,              \* Draft._order: the teams, each with its roster
  rounds,             \* Draft._rounds
  picks,              \* Draft._picks
  undrafted,          \* Draft._undrafted
  before,             \* the draft as it stood when the last call on it began
  lone_roster,        \* a Roster used on its own
  threads             \* the calls of the concurrent callers, one per thread

mapperVars == <<smoothed_points, points_bins, ranks, points_dist_type>>
ctorVars == <<constructed, raw_points, dist_type_arg>>
callVars == <<pc, call, searches, outcome, search>>
draftVars == <<order, rounds, picks, undrafted, before, lone_roster>>
vars == <<constructed, raw_points, dist_type_arg, smoothed_points, points_bins,
          ranks, points_dist_type, pc, call, searches, outcome, search,
          order, rounds, picks, undrafted, before, lone_roster, threads>>

Self ==
  [smoothed_points |-> smoothed_points, points_bins |-> points_bins,
   ranks |-> ranks, points_dist_type |-> points_dist_type]

NoCall == [op |-> "none", args |-> <<>>]
NoOutcome == [status |-> "none", value |-> <<>>, work |-> <<>>]
NoSearch ==
  [func |-> <<>>, sim |-> <<>>, fsim |-> <<>>, iterations |-> 0, fcalls |-> 0]

\* what a thread has read of self so far: nothing
NoView ==
  [smoothed_points |-> <<>>, points_bins |-> <<>>, ranks |-> <<>>,
   points_dist_type |-> ""]
IdleThread ==
  [status |-> "idle", op |-> "none", args |-> <<>>, reads |-> <<>>,
   view |-> NoView, searches |-> <<>>, out |-> NoOutcome]
Threads == 1..NThreads

\* no draft has been created
NoDraft ==
  /\ order = <<>>
  /\ rounds = 0
  /\ picks = <<>>
  /\ undrafted = <<>>
  /\ before = <<>>
  /\ lone_roster = <<>>

Init ==
  /\ constructed = "none"
  /\ raw_points = <<>>
  /\ dist_type_arg = ""
  /\ smoothed_points = <<>>
  /\ points_bins = <<>>
  /\ ranks = <<>>
  /\ points_dist_type = ""
  /\ pc = "idle"
  /\ call = NoCall
  /\ searches = <<>>
  /\ outcome = NoOutcome
  /\ search = NoSearch
  /\ NoDraft
  /\ threads = [t \in Threads |-> IdleThread]

\* __init__ (lines 21-49): the three arrays are set before the kind is checked
Construct(points, kind) ==
  /\ constructed = "none"
  /\ raw_points' = points
  /\ dist_type_arg' = kind
  /\ smoothed_points' = SmoothedPoints(points)
  /\ points_bins' = PointsBins(SmoothedPoints(points))
  /\ ranks' = Ranks(SmoothedPoints(points))
  /\ IF kind \notin ValidPointsDistTypes
     THEN constructed' = "ValueError" /\ points_dist_type' = ""
     ELSE constructed' = "ok" /\ points_dist_type' = kind
  /\ UNCHANGED callVars
  /\ UNCHANGED threads
  /\ UNCHANGED draftVars

\* a query on the constructed mapper ends with outcome o, having run the
\* searches that handed back results
Ends(op, args, results, o) ==
  /\ constructed = "ok"
  /\ pc = "idle"
  /\ pc' = "done"
  /\ call' = [op |-> op, args |-> args]
  /\ searches' = results
  /\ outcome' = o
  /\ search' = NoSearch
  /\ UNCHANGED ctorVars
  /\ UNCHANGED threads
  /\ UNCHANGED draftVars

\* the searches a call of rank_confidence_intervals started before it ended
SolvesStarted(o) ==
  Cardinality({i \in DOMAIN o.work : o.work[i] = "rank_to_points_variance"})

\* the table is reversed in place for the lookup
PointsToRankMean_FlipInPlace(points_means) ==
  /\ Ends("points_to_rank_mean", <<points_means>>, <<>>,
          Returned(points_to_rank_mean(Self, points_means), <<"np.interp">>))
  /\ smoothed_points' = NpFlip(smoothed_points)
  /\ ranks' = NpFlip(ranks)
  /\ UNCHANGED <<points_bins, points_dist_type>>

PointsToRankMean(points_means) ==
  /\ Ends("points_to_rank_mean", <<points_means>>, <<>>,
          Returned(points_to_rank_mean(Self, points_means), <<"np.interp">>))
  /\ UNCHANGED mapperVars

RankToPointsMean(rank_means) ==
  /\ Ends("rank_to_points_mean", <<rank_means>>, <<>>,
          Returned(rank_to_points_mean(Self, rank_means), <<"np.interp">>))
  /\ UNCHANGED mapperVars

PointsToRankVariance(points_variance, points_mean) ==
  /\ Ends("points_to_rank_variance", <<points_variance, points_mean>>, <<>>,
          points_to_rank_variance(Self, points_variance, points_mean))
  /\ UNCHANGED mapperVars

RankToPointsVariance(rank_variance, rank_mean, result) ==
  /\ Ends("rank_to_points_variance", <<rank_variance, rank_mean>>, <<result>>,
          rank_to_points_variance(Self, rank_variance, rank_mean, result))
  /\ UNCHANGED mapperVars

RankConfidenceIntervals(rank_means, rank_variances, confidence, results) ==
  /\ LET o == rank_confidence_intervals(Self, rank_means, rank_variances,
                                        confidence, results)
     IN Ends("rank_confidence_intervals",
             <<rank_means, rank_variances, confidence>>,
             SubSeq(results, 1, SolvesStarted(o)), o)
  /\ UNCHANGED mapperVars

\* the caller takes the outcome and is free to call again
Return ==
  /\ pc = "done"
  /\ pc' = "idle"
  /\ call' = NoCall
  /\ searches' = <<>>
  /\ outcome' = NoOutcome
  /\ search' = NoSearch
  /\ UNCHANGED ctorVars
  /\ UNCHANGED mapperVars
  /\ UNCHANGED threads
  /\ UNCHANGED draftVars

\* the arguments a caller can pass now: none unless a mapper stands idle
Callable(S) == IF constructed = "ok" /\ pc = "idle" THEN S ELSE {}

Next ==
  \/ \E points \in Tables, kind \in DistTypes : Construct(points, kind)
  \/ \E a \in Callable(PointArrays) : PointsToRankMean(a)
  \/ \E a \in Callable(RankArrays) : RankToPointsMean(a)
  \/ \E v \in Callable(VarianceArgs), m \in PointArgs : PointsToRankVariance(v, m)
  \/ \E v \in Callable(RankVarianceArgs), m \in RankMeanArgs :
        \E r \in MinimizeResultsOf(Self, v, m, MinimizeResults) :
          RankToPointsVariance(v, m, r)
  \/ \E ms \in Callable(IntervalMeans), vs \in IntervalVariances :
        \E rs \in IntervalSearches(Self, ms, vs, IntervalResults) :
          \E c \in ConfidenceArgs : RankConfidenceIntervals(ms, vs, c, rs)
  \/ Return

Spec == Init /\ [][Next]_vars

(***************************************************************************)
(* Concurrent callers.  Each thread runs one query at a time on the one    *)
(* mapper.  A query reads the attributes of self it uses, one read a step, *)
(* in the order the code first uses them, and then computes its outcome    *)
(* from what it read; the steps of the threads interleave freely.          *)
(***************************************************************************)
\* the attributes of self a query reads, in the order of their first use
ReadOrder(op, args) ==
  CASE op = "points_to_rank_mean" -> <<"smoothed_points", "ranks">>
    [] op = "rank_to_points_mean" -> <<"ranks", "smoothed_points">>
    [] op = "points_to_rank_variance" ->
         <<"smoothed_points", "points_dist_type", "points_bins", "ranks">>
    [] op = "rank_to_points_variance" ->
         <<"ranks", "smoothed_points", "points_dist_type", "points_bins">>
    [] op = "rank_confidence_intervals" ->
         IF \/ Len(args[1]) # Len(args[2])
            \/ ~(FLe(I(0), args[3]) /\ FLe(args[3], I(1)))
         THEN <<>>
         ELSE <<"ranks", "smoothed_points", "points_dist_type", "points_bins">>

\* the outcome of query op on the mapper self
Apply(op, self, args, results) ==
  CASE op = "points_to_rank_mean" ->
         Returned(points_to_rank_mean(self, args[1]), <<"np.interp">>)
    [] op = "rank_to_points_mean" ->
         Returned(rank_to_points_mean(self, args[1]), <<"np.interp">>)
    [] op = "points_to_rank_variance" ->
         points_to_rank_variance(self, args[1], args[2])
    [] op = "rank_to_points_variance" ->
         rank_to_points_variance(self, args[1], args[2], results[1])
    [] op = "rank_confidence_intervals" ->
         rank_confidence_intervals(self, args[1], args[2], args[3], results)

\* the calls the threads make
ThreadCalls ==
  {[op |-> "points_to_rank_mean", args |-> <<<<F(1, 2), I(2)>>>>],
   [op |-> "rank_to_points_mean", args |-> <<<<F(3, 2)>>>>],
   [op |-> "points_to_rank_variance", args |-> <<I(1), I(1)>>],
   [op |-> "rank_to_points_variance", args |-> <<I(1), I(2)>>],
   [op |-> "rank_confidence_intervals",
    args |-> <<<<I(2)>>, <<I(1)>>, F(4, 5)>>],
   [op |-> "rank_confidence_intervals",
    args |-> <<<<I(2)>>, <<>>, F(4, 5)>>]}
ThreadResults == [success : BOOLEAN, x : {I(1)}]
ThreadTables == {<<I(2), I(1), I(0)>>, <<I(1), I(2)>>}

ThreadBegin(t, c) ==
  /\ constructed = "ok"
  /\ threads[t].status = "idle"
  /\ threads' = [threads EXCEPT ![t] =
                   [IdleThread EXCEPT !.status = "running", !.op = c.op,
                                      !.args = c.args,
                                      !.reads = ReadOrder(c.op, c.args)]]
  /\ UNCHANGED <<ctorVars, mapperVars, callVars, draftVars>>

\* the attribute of self named f, as it stands now
Attribute(f) ==
  CASE f = "smoothed_points" -> smoothed_points
    [] f = "points_bins" -> points_bins
    [] f = "ranks" -> ranks
    [] f = "points_dist_type" -> points_dist_type

\* reading smoothed_points reverses it in place, for the lookup to come
ThreadRead_FlipInPlace(t) ==
  /\ threads[t].status = "running"
  /\ threads[t].reads # <<>>
  /\ LET f == Head(threads[t].reads)
     IN /\ threads' = [threads EXCEPT
                         ![t].view = [@ EXCEPT ![f] = Attribute(f)],
                         ![t].reads = Tail(@)]
        /\ smoothed_points' =
             IF f = "smoothed_points" /\ threads[t].op = "points_to_rank_mean"
             THEN NpFlip(smoothed_points) ELSE smoothed_points
  /\ UNCHANGED <<ctorVars, points_bins, ranks, points_dist_type, callVars,
               draftVars>>

ThreadRead(t) ==
  /\ threads[t].status = "running"
  /\ threads[t].reads # <<>>
  /\ LET f == Head(threads[t].reads)
     IN threads' = [threads EXCEPT
                      ![t].view = [@ EXCEPT ![f] = Attribute(f)],
                      ![t].reads = Tail(@)]
  /\ UNCHANGED <<ctorVars, mapperVars, callVars, draftVars>>

\* everything is read: the query computes and ends; results is what the
\* searches it runs hand back
ThreadEnd(t, results) ==
  /\ threads[t].status = "running"
  /\ threads[t].reads = <<>>
  /\ LET o == Apply(threads[t].op, threads[t].view, threads[t].args, results)
         used == IF threads[t].op = "rank_to_points_variance" THEN 1
                 ELSE SolvesStarted(o)
     IN threads' = [threads EXCEPT
                      ![t].status = "done",
                      ![t].searches = SubSeq(results, 1, used),
                      ![t].out = o]
  /\ UNCHANGED <<ctorVars, mapperVars, callVars, draftVars>>

\* what the searches of thread t's query may hand back, once it has read self
ThreadSearches(t) ==
  IF threads[t].status # "running" \/ threads[t].reads # <<>> THEN {}
  ELSE CASE threads[t].op = "rank_to_points_variance" ->
              {<<r>> : r \in MinimizeResultsOf(threads[t].view,
                                               threads[t].args[1],
                                               threads[t].args[2],
                                               ThreadResults)}
         [] threads[t].op = "rank_confidence_intervals" ->
              IntervalSearches(threads[t].view, threads[t].args[1],
                               threads[t].args[2], ThreadResults)
         [] OTHER -> {<<>>}

\* the caller takes the outcome; the thread is free again
ThreadReturn(t) ==
  /\ threads[t].status = "done"
  /\ threads' = [threads EXCEPT ![t] = IdleThread]
  /\ UNCHANGED <<ctorVars, mapperVars, callVars, draftVars>>

\* some mapper has been constructed, and no call is running yet
InitConcurrent ==
  /\ \E points \in ThreadTables :
       /\ raw_points = points
       /\ smoothed_points = SmoothedPoints(points)
       /\ points_bins = PointsBins(SmoothedPoints(points))
       /\ ranks = Ranks(SmoothedPoints(points))
  /\ constructed = "ok"
  /\ dist_type_arg = "gaussian"
  /\ points_dist_type = "gaussian"
  /\ pc = "idle"
  /\ call = NoCall
  /\ searches = <<>>
  /\ outcome = NoOutcome
  /\ search = NoSearch
  /\ NoDraft
  /\ threads = [t \in Threads |-> IdleThread]

NextConcurrent ==
  \/ \E t \in Threads, c \in ThreadCalls : ThreadBegin(t, c)
  \/ \E t \in Threads : ThreadRead(t)
  \/ \E t \in Threads : \E rs \in ThreadSearches(t) : ThreadEnd(t, rs)
  \/ \E t \in Threads : ThreadReturn(t)

SpecConcurrent == InitConcurrent /\ [][NextConcurrent]_vars

(***************************************************************************)
(* Properties.                                                             *)
(***************************************************************************)
NonIncreasing(a) == \A i \in 1..(Len(a) - 1) : FGe(a[i], a[i + 1])
StrictlyDecreasing(a) == \A i \in 1..(Len(a) - 1) : FGt(a[i], a[i + 1])
IsInteger(a) == IsNum(a) /\ a.d = 1
Ended(op) == pc = "done" /\ call.op = op

\* C1: points_to_rank_variance with points_variance <= 0 ends in an
\* invalid-input error, returns no value, and is rejected before the bin
\* boundaries are standardized.
C1_NonPositiveVarianceRejected ==
  (Ended("points_to_rank_variance") /\ FLe(call.args[1], I(0)))
    => /\ outcome.status = "ValueError"
       /\ outcome.value = <<>>
       /\ \A i \in DOMAIN outcome.work : outcome.work[i] # "standardize"

\* C2: when the minimization inside rank_to_points_variance reports
\* non-convergence the call ends in a RuntimeError and returns nothing; a value
\* is returned only when the search reports success, and it is the search's x.
C2_NonConvergenceRaises ==
  Ended("rank_to_points_variance")
    => /\ ~searches[1].success
            => outcome.status = "RuntimeError" /\ outcome.value = <<>>
       /\ outcome.status = "ok"
            => searches[1].success /\ outcome.value = <<searches[1].x>>

C2_Witness ==
  /\ Ended("rank_to_points_variance")
  /\ ~searches[1].success
  /\ outcome.status = "RuntimeError"

\* C3: rank_confidence_intervals with rank_means and rank_variances of different
\* shapes ends in an invalid-input error before any mean conversion, inverse
\* solve or interval computation is started, and returns no rows.
C3_ShapeMismatchRejectedFirst ==
  (Ended("rank_confidence_intervals") /\ Len(call.args[1]) # Len(call.args[2]))
    => /\ outcome.status = "ValueError"
       /\ outcome.work = <<>>
       /\ searches = <<>>
       /\ outcome.value = <<>>

C3_Witness ==
  /\ Ended("rank_confidence_intervals")
  /\ Len(call.args[1]) = 2
  /\ Len(call.args[2]) = 1
  /\ FLe(I(0), call.args[3]) /\ FLe(call.args[3], I(1))
  /\ outcome.status = "ValueError"

\* C4: rank_confidence_intervals with a confidence below 0 or above 1 ends in an
\* invalid-input error before any mean conversion or inverse solve is started;
\* the confidences 0 and 1 are accepted.
C4_ConfidenceOutsideUnitIntervalRejected ==
  Ended("rank_confidence_intervals")
    => /\ (FLt(call.args[3], I(0)) \/ FGt(call.args[3], I(1)))
            => /\ outcome.status = "ValueError"
               /\ outcome.work = <<>>
               /\ searches = <<>>
       /\ (/\ call.args[3] \in {I(0), I(1)}
           /\ Len(call.args[1]) = Len(call.args[2]))
            => /\ outcome.status # "ValueError"
               /\ outcome.work # <<>>

C4_Witness ==
  /\ Ended("rank_confidence_intervals")
  /\ Len(call.args[1]) = 1
  /\ Len(call.args[2]) = 1
  /\ FGt(call.args[3], I(1))
  /\ outcome.status = "ValueError"

C6_QueriesLeaveMapperUnchanged ==
  [][constructed = "ok"
       => /\ smoothed_points' = smoothed_points
          /\ points_bins' = points_bins
          /\ ranks' = ranks
          /\ points_dist_type' = points_dist_type]_vars

C6_Witness ==
  /\ Ended("rank_confidence_intervals")
  /\ outcome.status = "RuntimeError"
  /\ smoothed_points = SmoothedPoints(raw_points)

\* the mapper as __init__ built it from its arguments
AsConstructed ==
  LET sp == SmoothedPoints(raw_points)
  IN [smoothed_points |-> sp, points_bins |-> PointsBins(sp),
      ranks |-> Ranks(sp), points_dist_type |-> dist_type_arg]

\* C7: when queries on one mapper run concurrently in any interleaving, each
\* call returns what it returns when run alone, and no call reads a value
\* another call wrote: whatever a call has read of the mapper is what __init__
\* put there.
C7_ConcurrentCallsRunAsAlone ==
  LET built == AsConstructed
  IN \A t \in Threads :
       /\ threads[t].status = "done"
            => threads[t].out = Apply(threads[t].op, built, threads[t].args,
                                      threads[t].searches)
       /\ \A f \in DOMAIN NoView :
            threads[t].view[f] \in {NoView[f], built[f]}

\* two calls in flight at once, each part-way through its reads of the mapper
C7_Witness ==
  /\ threads[1].status = "running"
  /\ threads[1].op = "rank_confidence_intervals"
  /\ Len(threads[1].reads) = 2
  /\ threads[2].status = "running"
  /\ threads[2].op = "points_to_rank_mean"
  /\ Len(threads[2].reads) = 1

\* the best rank whose smoothed points equal those of the last rank
FirstRankOfLastPoints(sp) ==
  CHOOSE k \in 1..Len(sp) :
    /\ FEq(sp[k], sp[Len(sp)])
    /\ \A h \in 1..(k - 1) : ~FEq(sp[h], sp[Len(sp)])

\* C8 as the claim states it: on a non-increasing smoothed table every returned
\* rank lies in [1, n], a points value at or above smoothed_points[0] returns
\* rank 1 and a points value at or below smoothed_points[n-1] returns rank n.
C8_ClampsAsClaimed ==
  (Ended("points_to_rank_mean") /\ NonIncreasing(smoothed_points))
    => /\ outcome.status = "ok"
       /\ \A i \in 1..Len(call.args[1]) :
            LET x == call.args[1][i]
                r == outcome.value[i]
                n == Len(smoothed_points)
            IN /\ FLe(I(1), r) /\ FLe(r, I(n))
               /\ FGe(x, smoothed_points[1]) => r = I(1)
               /\ FLe(x, smoothed_points[n]) => r = I(n)

\* C8, amended: on a non-increasing smoothed table points_to_rank_mean always
\* returns, every returned rank lies in [1, n], a points value at or above
\* smoothed_points[0] returns rank 1, a points value below smoothed_points[n-1]
\* returns rank n, and the points value smoothed_points[n-1] itself returns the
\* best rank that has those points (rank n unless the table ends in a tie).
C8_Clamps ==
  (Ended("points_to_rank_mean") /\ NonIncreasing(smoothed_points))
    => /\ outcome.status = "ok"
       /\ Len(outcome.value) = Len(call.args[1])
       /\ \A i \in 1..Len(call.args[1]) :
            LET x == call.args[1][i]
                r == outcome.value[i]
                n == Len(smoothed_points)
            IN /\ FLe(I(1), r) /\ FLe(r, I(n))
               /\ FGe(x, smoothed_points[1]) => r = I(1)
               /\ FLt(x, smoothed_points[n]) => r = I(n)
               /\ FEq(x, smoothed_points[n])
                    => r = I(FirstRankOfLastPoints(smoothed_points))

C8_Witness ==
  /\ Ended("points_to_rank_mean")
  /\ NonIncreasing(smoothed_points)
  /\ Len(smoothed_points) = 3
  /\ FEq(smoothed_points[2], smoothed_points[3])
  /\ FGt(smoothed_points[1], smoothed_points[2])
  /\ Len(call.args[1]) = 2
  /\ FEq(call.args[1][1], smoothed_points[3])
  /\ outcome.value[1] = I(2)
  /\ FGt(call.args[1][2], smoothed_points[1])
  /\ outcome.value[2] = I(1)

\* C9: rank_to_points_mean always returns; an integer rank k in 1..n returns
\* smoothed_points[k-1], a rank at or below 1 returns smoothed_points[0], a rank
\* at or above n returns smoothed_points[n-1], and on a non-increasing table the
\* returned points never increase as the rank increases.
C9_RankToPointsClamps ==
  Ended("rank_to_points_mean")
    => /\ outcome.status = "ok"
       /\ Len(outcome.value) = Len(call.args[1])
       /\ \A i \in 1..Len(call.args[1]) :
            LET x == call.args[1][i]
                p == outcome.value[i]
                n == Len(smoothed_points)
            IN /\ (IsInteger(x) /\ x.n \in 1..n) => p = smoothed_points[x.n]
               /\ FLe(x, I(1)) => p = smoothed_points[1]
               /\ FGe(x, I(n)) => p = smoothed_points[n]
       /\ NonIncreasing(smoothed_points)
            => \A i, j \in 1..Len(call.args[1]) :
                 FLt(call.args[1][i], call.args[1][j])
                   => FGe(outcome.value[i], outcome.value[j])

C9_Witness ==
  /\ Ended("rank_to_points_mean")
  /\ NonIncreasing(smoothed_points)
  /\ Len(smoothed_points) = 7
  /\ call.args[1] = <<F(7, 2), I(7)>>
  /\ FGt(outcome.value[1], outcome.value[2])
  /\ outcome.value[1] = F(smoothed_points[3].n + smoothed_points[4].n, 2)
  /\ outcome.value[2] = smoothed_points[7]

\* C10: round trip at the knots: on a strictly decreasing smoothed table, for
\* every integer rank r in 1..n, points_to_rank_mean(rank_to_points_mean(r)) is
\* r exactly.
C10_RoundTripAtKnots ==
  (Ended("rank_to_points_mean") /\ StrictlyDecreasing(smoothed_points))
    => \A i \in 1..Len(call.args[1]) :
         LET r == call.args[1][i]
         IN (IsInteger(r) /\ r.n \in 1..Len(smoothed_points))
              => points_to_rank_mean(Self, <<outcome.value[i]>>) = <<r>>

C10_Witness ==
  /\ Ended("rank_to_points_mean")
  /\ StrictlyDecreasing(smoothed_points)
  /\ Len(smoothed_points) = 3
  /\ call.args[1] = <<I(2), I(3)>>
  /\ points_to_rank_mean(Self, outcome.value) = <<I(2), I(3)>>

\* C11: monotonicity of points_to_rank_mean: on a non-increasing smoothed table,
\* for any two points values p1 > p2, inside or outside the table's range, the
\* rank returned for p1 is at most the rank returned for p2.
C11_PointsToRankMonotone ==
  (Ended("points_to_rank_mean") /\ NonIncreasing(smoothed_points))
    => \A i, j \in 1..Len(call.args[1]) :
         FGt(call.args[1][i], call.args[1][j])
           => FLe(outcome.value[i], outcome.value[j])

\* one value between two knots and one above the table: the ranks differ
C11_Witness ==
  /\ Ended("points_to_rank_mean")
  /\ StrictlyDecreasing(smoothed_points)
  /\ Len(smoothed_points) = 3
  /\ Len(call.args[1]) = 2
  /\ FLt(call.args[1][1], smoothed_points[2])
  /\ FGt(call.args[1][1], smoothed_points[3])
  /\ FGt(call.args[1][2], smoothed_points[1])
  /\ FGt(outcome.value[1], I(2))
  /\ FLt(outcome.value[1], I(3))
  /\ outcome.value[2] = I(1)

\* the per-rank probabilities the call that just ended computed (lines 92-102)
RankProbsOfCall == RankProbs(BinCdfs(Self, call.args[1], call.args[2]))

\* C12: for every table of n >= 2 points and every points_mean and
\* points_variance > 0, points_to_rank_variance builds n per-rank probabilities
\* from n-1 bin CDF values, and they sum to exactly 1 whatever the CDF values
\* are, also for n = 2 where there is a single bin.
C12_RankProbsSumToOne ==
  (Ended("points_to_rank_variance") /\ FGt(call.args[1], I(0)))
    => /\ Len(BinCdfs(Self, call.args[1], call.args[2])) = Len(smoothed_points) - 1
       /\ Len(RankProbsOfCall) = Len(smoothed_points)
       /\ FSum(RankProbsOfCall) = I(1)

\* three ranks, three different probabilities in between 0 and 1
C12_Witness ==
  /\ Ended("points_to_rank_variance")
  /\ FGt(call.args[1], I(0))
  /\ Len(smoothed_points) = 3
  /\ \A i \in 1..3 : FGt(RankProbsOfCall[i], I(0)) /\ FLt(RankProbsOfCall[i], I(1))
  /\ Cardinality({RankProbsOfCall[i] : i \in 1..3}) = 3
  /\ FSum(RankProbsOfCall) = I(1)

\* C13 as the claim states it: for every points_mean and points_variance > 0,
\* every per-rank probability computed in points_to_rank_variance is
\* non-negative, for every points table the mapper accepts.
C13_RankProbsNonNegativeForEveryTable ==
  (Ended("points_to_rank_variance") /\ FGt(call.args[1], I(0)))
    => \A i \in 1..Len(RankProbsOfCall) : FGe(RankProbsOfCall[i], I(0))

\* C13, amended: for every points_mean and points_variance > 0, every per-rank
\* probability computed in points_to_rank_variance is non-negative, for every
\* points table whose smoothed points are non-increasing.
C13_RankProbsNonNegative ==
  (/\ Ended("points_to_rank_variance")
   /\ FGt(call.args[1], I(0))
   /\ NonIncreasing(smoothed_points))
    => \A i \in 1..Len(RankProbsOfCall) :
         /\ IsNum(RankProbsOfCall[i])
         /\ FGe(RankProbsOfCall[i], I(0))

\* a smoothed 7-point table, the mean off the table's top: the best rank takes
\* most of the mass and a middle rank a positive share
C13_Witness ==
  /\ Ended("points_to_rank_variance")
  /\ FGt(call.args[1], I(0))
  /\ Len(smoothed_points) = 7
  /\ NonIncreasing(smoothed_points)
  /\ ~NonIncreasing(raw_points)
  /\ FGt(RankProbsOfCall[1], F(1, 2))
  /\ \E i \in 2..6 : FGt(RankProbsOfCall[i], I(0))

\* C14: forward/inverse consistency: for a chosen points_mean and
\* points_variance > 0, rank_to_points_variance(points_to_rank_variance(
\* points_variance, points_mean), points_to_rank_mean(points_mean)) returns a
\* value within 1e-2 of points_variance.
C14_ForwardInverseConsistent ==
  (Ended("points_to_rank_variance") /\ FGt(call.args[1], I(0)))
    => LET rank_variance == outcome.value[1]
           rank_mean == points_to_rank_mean(Self, <<call.args[2]>>)[1]
       IN \A r \in MinimizeResultsOf(Self, rank_variance, rank_mean,
                                     MinimizeResults) :
            LET back == rank_to_points_variance(Self, rank_variance, rank_mean, r)
            IN back.status = "ok"
                 => FLe(FAbs(FSub(back.value[1], call.args[1])), Tol)

\* C15: in every row i returned by rank_confidence_intervals on a
\* non-increasing table, column 0 is the rank of points_mean_i + z *
\* points_stdev_i and column 1 the rank of points_mean_i - z * points_stdev_i,
\* so column 0 <= column 1.
C15_BetterBoundFirst ==
  (/\ Ended("rank_confidence_intervals")
   /\ outcome.status = "ok"
   /\ NonIncreasing(smoothed_points))
    => \A i \in 1..Len(outcome.value) :
         LET point_mean == rank_to_points_mean(Self, <<call.args[1][i]>>)[1]
             reach == FMul(NpSqrt(searches[i].x),
                           NormPpf(FDiv(FAdd(I(1), call.args[3]), I(2))))
         IN /\ <<outcome.value[i][1]>>
                 = points_to_rank_mean(Self, <<FAdd(point_mean, reach)>>)
            /\ <<outcome.value[i][2]>>
                 = points_to_rank_mean(Self, <<FSub(point_mean, reach)>>)
            /\ FLe(outcome.value[i][1], outcome.value[i][2])

\* C16: on a strictly decreasing table, for a rank mean strictly between 1 and
\* n, a solved points standard deviation > 0 and a confidence strictly between
\* 0 and 1, the row returned by rank_confidence_intervals straddles the rank
\* mean: column 0 < rank_mean < column 1.
C16_IntervalStraddlesMean ==
  (/\ Ended("rank_confidence_intervals")
   /\ outcome.status = "ok"
   /\ StrictlyDecreasing(smoothed_points)
   /\ FLt(I(0), call.args[3]) /\ FLt(call.args[3], I(1)))
    => \A i \in 1..Len(outcome.value) :
         (/\ FLt(I(1), call.args[1][i])
          /\ FLt(call.args[1][i], I(Len(smoothed_points)))
          /\ FGt(NpSqrt(searches[i].x), I(0)))
           => /\ FLt(outcome.value[i][1], call.args[1][i])
              /\ FLt(call.args[1][i], outcome.value[i][2])

\* a rank mean between two knots, bounds strictly inside the table on both sides
C16_Witness ==
  /\ Ended("rank_confidence_intervals")
  /\ outcome.status = "ok"
  /\ StrictlyDecreasing(smoothed_points)
  /\ Len(smoothed_points) = 7
  /\ call.args[1] = <<F(5, 2)>>
  /\ call.args[3] = F(4, 5)
  /\ FGt(NpSqrt(searches[1].x), I(0))
  /\ FLt(I(1), outcome.value[1][1])
  /\ FLt(outcome.value[1][1], F(5, 2))
  /\ FLt(F(5, 2), outcome.value[1][2])
  /\ FLt(outcome.value[1][2], I(7))

(***************************************************************************)
(* The search of rank_to_points_variance, step by step.  scipy's           *)
(* Nelder-Mead keeps a simplex of two points for the one unknown, ordered  *)
(* by error.  Each pass of its loop tests the caps and the tolerances,     *)
(* evaluates the error at two or three trial points, replaces the worse    *)
(* point and counts one iteration.                                         *)
(***************************************************************************)
\* scipy's defaults for one unknown: maxiter = maxfev = 200 * len(x0)
MaxIter == 200
MaxFun == 200

SearchTables == {<<I(2), I(1), I(0)>>}
SearchRankVariances == {I(1)}
SearchRankMeans == {I(1), I(3)}
\* the points a pass may put in place of the worse point
SearchXs == {I(-1), I(0), F(1, 4000), I(1)}
\* the error evaluations of one pass: reflection, then expansion or
\* contraction, then the shrunk point when the contraction fails
SearchEvals == {2, 3}

\* np.argsort of the two errors: the better point first, a nan error last
SortSimplex(sim, fsim) ==
  IF FLt(fsim[2], fsim[1]) \/ (IsNaN(fsim[1]) /\ ~IsNaN(fsim[2]))
  THEN [sim |-> <<sim[2], sim[1]>>, fsim |-> <<fsim[2], fsim[1]>>]
  ELSE [sim |-> sim, fsim |-> fsim]

SearchCapped == search.fcalls >= MaxFun \/ search.iterations >= MaxIter
SearchConverged == SimplexConverged(search.sim, search.fsim)

\* some mapper has been constructed, and no call is running yet
InitSearch ==
  /\ \E points \in SearchTables :
       /\ raw_points = points
       /\ smoothed_points = SmoothedPoints(points)
       /\ points_bins = PointsBins(SmoothedPoints(points))
       /\ ranks = Ranks(SmoothedPoints(points))
  /\ constructed = "ok"
  /\ dist_type_arg = "gaussian"
  /\ points_dist_type = "gaussian"
  /\ pc = "idle"
  /\ call = NoCall
  /\ searches = <<>>
  /\ outcome = NoOutcome
  /\ search = NoSearch
  /\ NoDraft
  /\ threads = [t \in Threads |-> IdleThread]

\* lines 122-146: the seed, the simplex minimize builds from it, and func,
\* the error function minimize is handed, tabulated at the trial points
SearchBegin(rank_variance, rank_mean) ==
  /\ constructed = "ok"
  /\ pc = "idle"
  /\ pc' = "searching"
  /\ call' = [op |-> "rank_to_points_variance",
              args |-> <<rank_variance, rank_mean>>]
  /\ LET points_mean == rank_to_points_mean(Self, <<rank_mean>>)[1]
         sim == InitialSimplex(InitialVarGuess(Self, rank_variance, rank_mean))
         fsim == [i \in 1..2 |->
                    PointsToRankVarianceError(Self, sim[i], points_mean,
                                              rank_variance)]
         sorted == SortSimplex(sim, fsim)
     IN search' = [func |-> [x \in SearchXs |->
                               PointsToRankVarianceError(Self, x, points_mean,
                                                         rank_variance)],
                   sim |-> sorted.sim, fsim |-> sorted.fsim, iterations |-> 0,
                   fcalls |-> 2]
  /\ UNCHANGED <<searches, outcome>>
  /\ UNCHANGED <<ctorVars, mapperVars, threads, draftVars>>

\* a pass that counts neither its iteration nor its evaluations
SearchIterate_CountsNothing(x, evals) ==
  /\ pc = "searching"
  /\ ~SearchCapped
  /\ ~SearchConverged
  /\ LET sorted == SortSimplex(<<search.sim[1], x>>,
                               <<search.fsim[1], search.func[x]>>)
     IN search' = [search EXCEPT !.sim = sorted.sim, !.fsim = sorted.fsim]
  /\ UNCHANGED <<pc, call, searches, outcome>>
  /\ UNCHANGED <<ctorVars, mapperVars, threads, draftVars>>

\* one pass of the loop: x replaces the worse point after evals evaluations
SearchIterate(x, evals) ==
  /\ pc = "searching"
  /\ ~SearchCapped
  /\ ~SearchConverged
  /\ LET sorted == SortSimplex(<<search.sim[1], x>>,
                               <<search.fsim[1], search.func[x]>>)
     IN search' = [search EXCEPT !.sim = sorted.sim, !.fsim = sorted.fsim,
                                 !.iterations = @ + 1, !.fcalls = @ + evals]
  /\ UNCHANGED <<pc, call, searches, outcome>>
  /\ UNCHANGED <<ctorVars, mapperVars, threads, draftVars>>

\* the loop is left: minimize hands back its result, success unless a cap was
\* hit, and lines 147-150 turn it into the outcome of the call
SearchEnd ==
  /\ pc = "searching"
  /\ SearchCapped \/ SearchConverged
  /\ LET result == [success |-> ~SearchCapped, x |-> search.sim[1]]
     IN /\ searches' = <<result>>
        /\ outcome' = rank_to_points_variance(Self, call.args[1], call.args[2],
                                              result)
  /\ pc' = "done"
  /\ UNCHANGED <<call, search>>
  /\ UNCHANGED <<ctorVars, mapperVars, threads, draftVars>>

SearchPass == \E x \in SearchXs, evals \in SearchEvals : SearchIterate(x, evals)

NextSearch ==
  \/ \E v \in SearchRankVariances, m \in SearchRankMeans : SearchBegin(v, m)
  \/ SearchPass
  \/ SearchEnd
  \/ Return

\* a running call executes its next statement
SpecSearch ==
  InitSearch /\ [][NextSearch]_vars /\ WF_vars(SearchPass) /\ WF_vars(SearchEnd)

\* C17: every call of rank_to_points_variance that has started its search
\* eventually ends, with a points variance or with the non-convergence error.
C17_SearchTerminates ==
  (pc = "searching")
    ~> (pc = "done" /\ outcome.status \in {"ok", "RuntimeError"})

C17_Witness ==
  /\ pc = "done"
  /\ call.op = "rank_to_points_variance"
  /\ search.fcalls >= MaxFun
  /\ outcome.status = "RuntimeError"

\* C18: for every table of n >= 2 points the constructed bins have exactly
\* n - 1 entries, each the mean of the two smoothed points around it, and ranks
\* is exactly 1..n.
C18_BinsAreMidpointsRanksCount ==
  (constructed = "ok" /\ Len(raw_points) >= 2)
    => /\ Len(points_bins) = Len(raw_points) - 1
       /\ \A i \in 1..(Len(raw_points) - 1) :
             FEq(FMul(I(2), points_bins[i]),
                 FAdd(smoothed_points[i], smoothed_points[i + 1]))
       /\ Len(ranks) = Len(raw_points)
       /\ \A i \in 1..Len(raw_points) : ranks[i] = I(i)

\* a table long enough for the smoothing to move a point: the bins around it
\* are midpoints of the smoothed points, not of the raw ones
C18_Witness ==
  /\ constructed = "ok"
  /\ Len(raw_points) = 7
  /\ Len(points_bins) = 6
  /\ ~FEq(FMul(I(2), points_bins[4]), FAdd(raw_points[4], raw_points[5]))
  /\ ranks[7] = I(7)

\* the indices of a table whose centred window of Window points leaves the table
WindowLeavesTable(n) ==
  {i \in 1..n : i - (Window - 1) \div 2 < 1 \/ i + (Window - 1) \div 2 > n}

\* C19: for every table of n >= 2 points the smoothed table has exactly n
\* entries, and every index where the 7-sample moving average is undefined
\* holds the raw value of that index; a table of fewer than 7 points is kept
\* unchanged.
C19_SmoothedKeepsRawWhereUndefined ==
  (constructed = "ok" /\ Len(raw_points) >= 2)
    => /\ Len(smoothed_points) = Len(raw_points)
       /\ \A i \in WindowLeavesTable(Len(raw_points)) :
             smoothed_points[i] = raw_points[i]
       /\ Len(raw_points) < Window => smoothed_points = raw_points

\* a 7-point table: its middle entry is smoothed away from the raw value, the
\* three entries on either side are the raw ones
C19_Witness ==
  /\ constructed = "ok"
  /\ Len(raw_points) = 7
  /\ smoothed_points[4] # raw_points[4]
  /\ smoothed_points[3] = raw_points[3]
  /\ smoothed_points[5] = raw_points[5]

(***************************************************************************)
(* The draft.  A player is a record of its dataclass fields and players    *)
(* compare by value; a python list is a sequence; an optional int is a     *)
(* sequence of none or one; a team is [name, roster] and a roster is       *)
(* [settings, players], both functions of the roster spot.  An operation   *)
(* of the draft is a function of the draft d = [order, rounds, picks,      *)
(* undrafted] that gives the exception it ends with ("ok" for none) and    *)
(* the draft as it leaves it.                                              *)
(***************************************************************************)
\* class RosterSpot, in its order of definition
RosterSpot ==
  <<"QB", "RB", "WR", "TE", "DST", "K", "FLEX", "QBFLEX", "BENCH", "IR">>
RosterSpots == {RosterSpot[i] : i \in DOMAIN RosterSpot}

Player(position, name, ir_eligible) ==
  [position |-> position, name |-> name, team |-> "NFL",
   ir_eligible |-> ir_eligible]

is_roster_eligible(player, roster_spot) ==
  CASE roster_spot \in {"QB", "RB", "WR", "TE", "DST", "K"} ->
         player.position = roster_spot
    [] roster_spot = "FLEX" -> player.position \in {"RB", "WR", "TE"}
    [] roster_spot = "QBFLEX" -> player.position \in {"QB", "RB", "WR", "TE"}
    [] roster_spot = "BENCH" -> TRUE
    [] roster_spot = "IR" -> player.ir_eligible

\* x in l
Contains(l, x) == \E i \in DOMAIN l : l[i] = x
\* l.remove(x): l without its first x (x is in l)
ListRemove(l, x) ==
  LET i == CHOOSE h \in DOMAIN l : l[h] = x /\ \A j \in 1..(h - 1) : l[j] # x
  IN SubSeq(l, 1, i - 1) \o SubSeq(l, i + 1, Len(l))
\* l[:-1]
ListPop(l) == SubSeq(l, 1, Len(l) - 1)
\* not x, for an optional int
Falsy(x) == x = <<>> \/ x[1] = 0

\* Roster.__init__
Roster(settings) ==
  [settings |-> settings, players |-> [spot \in RosterSpots |-> <<>>]]

\* add_player with the last of the open spots taken
add_player_LastOpenSpot(roster, player) ==
  LET open == {i \in DOMAIN RosterSpot :
                 /\ is_roster_eligible(player, RosterSpot[i])
                 /\ Len(roster.players[RosterSpot[i]])
                      < roster.settings[RosterSpot[i]]}
  IN IF open = {} THEN [status |-> "RuntimeError", roster |-> roster]
     ELSE LET last == CHOOSE i \in open : \A j \in open : i >= j
          IN [status |-> "ok",
              roster |-> [roster EXCEPT !.players[RosterSpot[last]] =
                                          Append(@, player)]]

\* Roster.add_player: the first spot, in the order of RosterSpot, the player is
\* eligible for and that has room; RuntimeError when there is none
add_player(roster, player) ==
  LET open == {i \in DOMAIN RosterSpot :
                 /\ is_roster_eligible(player, RosterSpot[i])
                 /\ Len(roster.players[RosterSpot[i]])
                      < roster.settings[RosterSpot[i]]}
  IN IF open = {} THEN [status |-> "RuntimeError", roster |-> roster]
     ELSE LET first == CHOOSE i \in open : \A j \in open : i <= j
          IN [status |-> "ok",
              roster |-> [roster EXCEPT !.players[RosterSpot[first]] =
                                          Append(@, player)]]

\* Roster.remove_player: the player leaves every spot that holds it, once each
remove_player(roster, player) ==
  [roster EXCEPT !.players =
     [spot \in RosterSpots |->
        IF Contains(roster.players[spot], player)
        THEN ListRemove(roster.players[spot], player)
        ELSE roster.players[spot]]]

\* Roster.move_player: the spot must have room and suit the player; the player
\* leaves the first spot that holds it and joins the end of the spot
move_player(r, player, roster_spot) ==
  IF Len(r.players[roster_spot]) >= r.settings[roster_spot]
  THEN [status |-> "RuntimeError", roster |-> r]
  ELSE IF ~is_roster_eligible(player, roster_spot)
  THEN [status |-> "RuntimeError", roster |-> r]
  ELSE IF \A i \in DOMAIN RosterSpot : ~Contains(r.players[RosterSpot[i]], player)
  THEN [status |-> "RuntimeError", roster |-> r]
  ELSE LET holds == {i \in DOMAIN RosterSpot :
                       Contains(r.players[RosterSpot[i]], player)}
           first == CHOOSE i \in holds : \A j \in holds : i <= j
           removed == [r EXCEPT !.players[RosterSpot[first]] =
                                  ListRemove(@, player)]
       IN [status |-> "ok",
           roster |-> [removed EXCEPT !.players[roster_spot] =
                                        Append(@, player)]]

\* pick_num_to_team with every round picking in the order of round 1
pick_num_to_team_NoSnake(d, pick_num) ==
  IF pick_num <= 0 \/ pick_num > Len(d.order) * d.rounds
  THEN [status |-> "ValueError", team |-> 0]
  ELSE [status |-> "ok", team |-> ((pick_num - 1) % Len(d.order)) + 1]

\* Draft.pick_num_to_team: the place in order of the team picking at pick_num
\* (from 1), the rounds snaking
pick_num_to_team(d, pick_num) ==
  LET num_picks == Len(d.order) * d.rounds
      team_num == (pick_num - 1) % Len(d.order)
      round == (pick_num - 1) \div Len(d.order) + 1
  IN IF pick_num <= 0 \/ pick_num > num_picks
     THEN [status |-> "ValueError", team |-> 0]
     ELSE [status |-> "ok",
           team |-> IF round % 2 = 0 THEN Len(d.order) - team_num
                    ELSE team_num + 1]

\* the next-pick branch without the test for a complete draft
SetNextPick_NoCompleteTest(d, player) ==
  LET last == Len(d.order) * d.rounds
      pick_num == IF Len(d.picks) + 1 > last THEN last ELSE Len(d.picks) + 1
      t == pick_num_to_team(d, pick_num).team
      added == add_player(d.order[t].roster, player)
  IN IF added.status # "ok" THEN [status |-> added.status, d |-> d]
     ELSE [status |-> "ok",
           d |-> [d EXCEPT !.order[t].roster = added.roster,
                           !.undrafted = ListRemove(@, player),
                           !.picks = Append(@, player)]]

\* the next-pick branch of set_pick
SetNextPick(d, player) ==
  IF Len(d.picks) = Len(d.order) * d.rounds
  THEN [status |-> "RuntimeError", d |-> d]
  ELSE LET t == pick_num_to_team(d, Len(d.picks) + 1).team
           added == add_player(d.order[t].roster, player)
       IN IF added.status # "ok" THEN [status |-> added.status, d |-> d]
          ELSE [status |-> "ok",
                d |-> [d EXCEPT !.order[t].roster = added.roster,
                                !.undrafted = ListRemove(@, player),
                                !.picks = Append(@, player)]]

\* the change-of-pick branch of set_pick; the new player is taken off the
\* roster, the old pick is put back in the pool, and then the new player joins
\* the roster and takes the pick
SetPastPick(d, player, pick_num) ==
  LET team == pick_num_to_team(d, pick_num)
  IN IF team.status # "ok" THEN [status |-> team.status, d |-> d]
     ELSE LET t == team.team
              removed == remove_player(d.order[t].roster, player)
              pooled == [d EXCEPT !.order[t].roster = removed,
                                  !.undrafted = Append(@, d.picks[pick_num])]
              added == add_player(removed, player)
          IN IF added.status # "ok"
             THEN [status |-> added.status, d |-> pooled]
             ELSE [status |-> "ok",
                   d |-> [pooled EXCEPT
                            !.order[t].roster = added.roster,
                            !.undrafted = ListRemove(@, player),
                            !.picks[pick_num] = player]]

\* set_pick with the range of pick_num tested before the player's availability
set_pick_RangeTestedFirst(d, player, pick_num) ==
  IF ~Falsy(pick_num) /\ pick_num[1] \notin 1..(Len(d.picks) + 1)
  THEN [status |-> "ValueError", d |-> d]
  ELSE IF ~Contains(d.undrafted, player)
  THEN [status |-> "RuntimeError", d |-> d]
  ELSE IF Falsy(pick_num) \/ pick_num[1] - 1 = Len(d.picks)
  THEN SetNextPick(d, player)
  ELSE SetPastPick(d, player, pick_num[1])

\* Draft.set_pick
set_pick(d, player, pick_num) ==
  IF ~Contains(d.undrafted, player)
  THEN [status |-> "RuntimeError", d |-> d]
  ELSE IF Falsy(pick_num) \/ pick_num[1] - 1 = Len(d.picks)
  THEN SetNextPick(d, player)
  ELSE IF Len(d.picks) < pick_num[1] - 1 \/ pick_num[1] <= 0
  THEN [status |-> "ValueError", d |-> d]
  ELSE SetPastPick(d, player, pick_num[1])

\* the loop of delete_picks with n passes to go
RECURSIVE DeleteLast(_, _)
DeleteLast(d, n) ==
  IF n <= 0 THEN [status |-> "ok", d |-> d]
  ELSE LET team == pick_num_to_team(d, Len(d.picks))
       IN IF team.status # "ok" THEN [status |-> team.status, d |-> d]
          ELSE LET last == d.picks[Len(d.picks)]
                   t == team.team
               IN DeleteLast([d EXCEPT
                                !.order[t].roster = remove_player(@, last),
                                !.undrafted = Append(@, last),
                                !.picks = ListPop(@)],
                             n - 1)

\* Draft.delete_picks
delete_picks(d, num_picks) ==
  DeleteLast(d, IF Falsy(num_picks) THEN Len(d.picks) ELSE num_picks[1])

(***************************************************************************)
(* The pick suggestor.  A dict is the sequence of its <<key, value>> items *)
(* in the order of insertion.                                              *)
(***************************************************************************)
\* whether a Player can be the key of a dict: a dataclass that compares by
\* value and is not frozen has no __hash__
PlayerHashable == FALSE

\* dict(items): a key keeps the place of its first item and the value of its
\* last
DictOf(items) ==
  LET firsts == {i \in DOMAIN items :
                   \A j \in 1..(i - 1) : items[j][1] # items[i][1]}
      last(i) == CHOOSE j \in DOMAIN items :
                   /\ items[j][1] = items[i][1]
                   /\ \A h \in (j + 1)..Len(items) : items[h][1] # items[i][1]
      nth(k) == CHOOSE i \in firsts :
                  Cardinality({j \in firsts : j < i}) = k - 1
  IN [k \in 1..Cardinality(firsts) |-> <<items[nth(k)][1], items[last(nth(k))][2]>>]

\* sorted(items, key=lambda x: x[1], reverse=True): the greater value first,
\* items of equal value in the order they had
SortedByValue(items) ==
  LET place(i) == 1 + Cardinality({j \in DOMAIN items :
                                     \/ items[j][2] > items[i][2]
                                     \/ items[j][2] = items[i][2] /\ j < i})
  IN [k \in DOMAIN items |-> items[CHOOSE i \in DOMAIN items : place(i) = k]]

\* PlayerRanking.get_ovr_rankings
get_ovr_rankings(my_ranking) == my_ranking

\* l.index(x), from 0 (x is in l)
ListIndex(l, x) ==
  (CHOOSE i \in DOMAIN l : l[i] = x /\ \A j \in 1..(i - 1) : l[j] # x) - 1

\* SimplePickAnalyzer.eval_players: a dict of each available player to its
\* height in the ranking, 0 for a player the ranking does not have; the dict
\* cannot take a player as key
eval_players(avail_players, my_ranking) ==
  IF avail_players # <<>> /\ ~PlayerHashable
  THEN [status |-> "TypeError", value |-> <<>>]
  ELSE [status |-> "ok",
        value |-> DictOf([i \in DOMAIN avail_players |->
                   <<avail_players[i],
                     IF ~Contains(get_ovr_rankings(my_ranking), avail_players[i])
                     THEN 0
                     ELSE Len(get_ovr_rankings(my_ranking))
                            - ListIndex(get_ovr_rankings(my_ranking),
                                        avail_players[i])>>])]

\* SimplePickSuggestor.get_suggestions: the roster of the team of the last
\* pick made is looked up first
get_suggestions(d, my_rankings) ==
  IF pick_num_to_team(d, Len(d.picks)).status # "ok"
  THEN [status |-> pick_num_to_team(d, Len(d.picks)).status, value |-> <<>>]
  ELSE IF eval_players(d.undrafted, my_rankings).status # "ok"
  THEN [status |-> eval_players(d.undrafted, my_rankings).status,
        value |-> <<>>]
  ELSE [status |-> "ok",
        value |-> DictOf(SortedByValue(
                           eval_players(d.undrafted, my_rankings).value))]

\* the draft as it stands
Draft ==
  [order |-> order, rounds |-> rounds, picks |-> picks,
   undrafted |-> undrafted]

(***************************************************************************)
(* The drafts and the calls the model draws.                               *)
(***************************************************************************)
PoolPlayers ==
  <<Player("QB", "a", FALSE), Player("RB", "b", FALSE),
    Player("RB", "c", TRUE)>>
\* the players a caller names: those of the pool and one who never was in it
DraftPlayers ==
  {PoolPlayers[i] : i \in DOMAIN PoolPlayers} \cup {Player("WR", "d", FALSE)}
NoSpots == [spot \in RosterSpots |-> 0]
\* the rosters of a league: a bench to fall back on, or none
Benched == [NoSpots EXCEPT !["QB"] = 1, !["RB"] = 1, !["BENCH"] = 1]
Tight == [NoSpots EXCEPT !["QB"] = 1, !["RB"] = 1]
\* the drafts: one team or two, the pool larger than the draft or smaller
DraftShapes ==
  {[teams |-> 1, rounds |-> 1, settings |-> Benched],
   [teams |-> 1, rounds |-> 2, settings |-> Tight],
   [teams |-> 1, rounds |-> 2, settings |-> Benched],
   [teams |-> 2, rounds |-> 2, settings |-> Tight],
   [teams |-> 2, rounds |-> 3, settings |-> Tight]}
PickNums == {<<>>} \cup {<<k>> : k \in (-1)..4}
NumPicks == {<<>>} \cup {<<k>> : k \in (-1)..3}
\* my rankings: of nobody, of the pool, of some of the pool and a stranger
Rankings ==
  {<<>>, PoolPlayers,
   <<Player("RB", "c", TRUE), Player("WR", "d", FALSE), Player("QB", "a", FALSE)>>}

\* Draft.__init__ on teams with empty rosters
InitDraft ==
  /\ \E shape \in DraftShapes :
       /\ order = [t \in 1..shape.teams |->
                     [name |-> t, roster |-> Roster(shape.settings)]]
       /\ rounds = shape.rounds
  /\ picks = <<>>
  /\ undrafted = PoolPlayers
  /\ before = <<>>
  /\ lone_roster = <<>>
  /\ constructed = "none"
  /\ raw_points = <<>>
  /\ dist_type_arg = ""
  /\ smoothed_points = <<>>
  /\ points_bins = <<>>
  /\ ranks = <<>>
  /\ points_dist_type = ""
  /\ pc = "idle"
  /\ call = NoCall
  /\ searches = <<>>
  /\ outcome = NoOutcome
  /\ search = NoSearch
  /\ threads = [t \in Threads |-> IdleThread]

\* a call on the draft ends with result r = [status, d]
DraftEnds(op, args, r) ==
  /\ call' = [op |-> op, args |-> args]
  /\ outcome' = IF r.status = "ok" THEN Returned(<<>>, <<>>)
                ELSE Raised(r.status, <<>>)
  /\ before' = Draft
  /\ order' = r.d.order
  /\ picks' = r.d.picks
  /\ undrafted' = r.d.undrafted
  /\ UNCHANGED <<rounds, lone_roster>>
  /\ UNCHANGED <<ctorVars, mapperVars, pc, searches, search, threads>>

\* the lists of a draft can grow without end once a call has failed half-way;
\* calls are followed while the lists hold at most one player more than the
\* pool held
Listed == Len(picks) + Len(undrafted) <= Len(PoolPlayers) + 1

SetPick(player, pick_num) ==
  /\ Listed
  /\ DraftEnds("set_pick", <<player, pick_num>>,
               set_pick(Draft, player, pick_num))

DeletePicks(num_picks) ==
  /\ Listed
  /\ DraftEnds("delete_picks", <<num_picks>>, delete_picks(Draft, num_picks))

\* get_suggestions reads the draft and leaves it as it is
GetSuggestions(my_rankings) ==
  /\ call' = [op |-> "get_suggestions", args |-> <<my_rankings>>]
  /\ outcome' = IF get_suggestions(Draft, my_rankings).status = "ok"
                THEN Returned(get_suggestions(Draft, my_rankings).value, <<>>)
                ELSE Raised(get_suggestions(Draft, my_rankings).status, <<>>)
  /\ before' = Draft
  /\ UNCHANGED <<order, rounds, picks, undrafted, lone_roster>>
  /\ UNCHANGED <<ctorVars, mapperVars, pc, searches, search, threads>>

NextDraft ==
  \/ \E player \in DraftPlayers, pick_num \in PickNums : SetPick(player, pick_num)
  \/ \E num_picks \in NumPicks : DeletePicks(num_picks)
  \/ \E my_rankings \in Rankings : GetSuggestions(my_rankings)

SpecDraft == InitDraft /\ [][NextDraft]_vars

\* the last call on the draft was set_pick of a player then in the pool, at an
\* integer pick number
SetPickOfAvailable ==
  /\ call.op = "set_pick"
  /\ call.args[2] # <<>>
  /\ Contains(before.undrafted, call.args[1])

\* C20: set_pick of an available player at an integer pick number that is
\* neither a past pick nor the next pick, zero and the negative numbers
\* included, raises ValueError and leaves picks, pool and rosters as they were.
C20_OutOfRangePickRejected ==
  (SetPickOfAvailable /\ call.args[2][1] \notin 1..(Len(before.picks) + 1))
    => outcome.status = "ValueError" /\ Draft = before

\* the last call on the draft was set_pick of a player not then in the pool
SetPickOfUnavailable ==
  /\ call.op = "set_pick"
  /\ ~Contains(before.undrafted, call.args[1])

\* C21: set_pick of a player who is not in the undrafted list raises
\* RuntimeError whatever pick_num is (None, a past pick, the next pick or out
\* of range) and leaves picks, undrafted list and every roster as they were.
C21_UnavailablePlayerRejected ==
  SetPickOfUnavailable => outcome.status = "RuntimeError" /\ Draft = before

\* C21: an already drafted player was named for a pick number beyond the next
\* pick, and the call ended in RuntimeError
C21_Witness ==
  /\ SetPickOfUnavailable
  /\ Contains(before.picks, call.args[1])
  /\ call.args[2] # <<>>
  /\ call.args[2][1] > Len(before.picks) + 1
  /\ outcome.status = "RuntimeError"

\* the player is in some spot of the roster
OnRoster(roster, player) ==
  \E spot \in RosterSpots : Contains(roster.players[spot], player)

\* the last call on the draft was delete_picks(k) with k an integer from 0 to
\* the number of picks then made
DeletePicksOfSome ==
  /\ call.op = "delete_picks"
  /\ call.args[1] # <<>>
  /\ call.args[1][1] \in 0..Len(before.picks)

\* the picks of before from number `from` on are gone from the draft: the
\* picks before them stand, and each player picked from there on is in the
\* undrafted list and off the roster of the team that picked
PicksDeletedFrom(from) ==
  /\ picks = SubSeq(before.picks, 1, from - 1)
  /\ \A i \in from..Len(before.picks) :
       /\ Contains(undrafted, before.picks[i])
       /\ ~OnRoster(order[pick_num_to_team(before, i).team].roster,
                    before.picks[i])

\* C22: delete_picks(k) with 0 <= k <= picks made removes exactly the last k
\* picks: the first picks - k stand, each removed player is back in the
\* undrafted list and off the roster of the team that picked them.
C22_DeletesLastK ==
  DeletePicksOfSome =>
    /\ outcome.status = "ok"
    /\ PicksDeletedFrom(Len(before.picks) - call.args[1][1] + 1)

\* how often x is in l
Count(l, x) == Cardinality({i \in DOMAIN l : l[i] = x})

\* C23: delete_picks(None) deletes all picks, in any draft state: after it the
\* drafted list is empty and every player that was drafted is in the undrafted
\* list exactly once.
C23_DeleteAllReturnsEachOnce ==
  (call.op = "delete_picks" /\ call.args[1] = <<>>) =>
    /\ outcome.status = "ok"
    /\ picks = <<>>
    /\ \A i \in DOMAIN before.picks : Count(undrafted, before.picks[i]) = 1

\* the place in order (from 1) of order[(p-1) mod T] in the odd rounds and of
\* order[T-1-((p-1) mod T)] in the even ones
SnakePlace(T, p) ==
  IF (((p - 1) \div T) + 1) % 2 = 1 THEN ((p - 1) % T) + 1
  ELSE (T - 1 - ((p - 1) % T)) + 1

\* the pick numbers of a round of T picks
PicksOfRound(T, round) == ((round - 1) * T + 1)..(round * T)

\* the last call made the next pick of the draft
NextPickMade ==
  /\ call.op = "set_pick"
  /\ outcome.status = "ok"
  /\ Len(picks) = Len(before.picks) + 1

\* C24: snake order.  For the T teams and R rounds of the draft,
\* pick_num_to_team(p) gives order[(p-1) mod T] in odd rounds and
\* order[T-1-((p-1) mod T)] in even rounds for p in 1..T*R, and ValueError for
\* p <= 0 and p > T*R; every team picks exactly once in a round, the last
\* picker of a round picks first in the next, and the player of the next pick
\* joins the roster of the team the order gives.
C24_SnakeOrder ==
  /\ \A p \in (-2)..(Len(order) * rounds + 2) :
       IF p \in 1..(Len(order) * rounds)
       THEN /\ pick_num_to_team(Draft, p).status = "ok"
            /\ pick_num_to_team(Draft, p).team = SnakePlace(Len(order), p)
       ELSE pick_num_to_team(Draft, p).status = "ValueError"
  /\ \A round \in 1..rounds : \A t \in DOMAIN order :
       Cardinality({p \in PicksOfRound(Len(order), round) :
                      pick_num_to_team(Draft, p).team = t}) = 1
  /\ \A round \in 1..(rounds - 1) :
       pick_num_to_team(Draft, round * Len(order)).team
         = pick_num_to_team(Draft, round * Len(order) + 1).team
  /\ NextPickMade =>
       OnRoster(order[SnakePlace(Len(order), Len(picks))].roster,
                picks[Len(picks)])

\* C24: in a draft of two teams the first pick of the second round, pick 3,
\* was made, and its player is on the roster of the second team next to the
\* player of pick 2
C24_Witness ==
  /\ Len(order) = 2
  /\ NextPickMade
  /\ Len(picks) = 3
  /\ picks[2] # picks[3]
  /\ OnRoster(order[2].roster, picks[2])
  /\ OnRoster(order[2].roster, picks[3])
  /\ ~OnRoster(order[1].roster, picks[3])

\* the keys of a dict
Keys(dict) == {dict[i][1] : i \in DOMAIN dict}

\* C25: in every draft state, a draft with no pick made yet included,
\* get_suggestions returns a mapping whose keys are exactly the undrafted
\* players, in the order of non-increasing suggestion strength.
C25_SuggestionsCoverUndrafted ==
  call.op = "get_suggestions" =>
    /\ outcome.status = "ok"
    /\ Keys(outcome.value) = {undrafted[i] : i \in DOMAIN undrafted}
    /\ \A i, j \in DOMAIN outcome.value :
         i < j => outcome.value[i][2] >= outcome.value[j][2]

(***************************************************************************)
(* A roster on its own: players are added, removed and moved.              *)
(***************************************************************************)
\* a roster with a spot of every flexible kind
Deep ==
  [NoSpots EXCEPT !["QB"] = 1, !["RB"] = 1, !["FLEX"] = 1, !["QBFLEX"] = 1,
                  !["BENCH"] = 1, !["IR"] = 1]
RosterSettings == {Benched, Deep}

\* Roster.__init__
InitRoster ==
  /\ \E settings \in RosterSettings : lone_roster = Roster(settings)
  /\ before = <<>>
  /\ order = <<>>
  /\ rounds = 0
  /\ picks = <<>>
  /\ undrafted = <<>>
  /\ constructed = "none"
  /\ raw_points = <<>>
  /\ dist_type_arg = ""
  /\ smoothed_points = <<>>
  /\ points_bins = <<>>
  /\ ranks = <<>>
  /\ points_dist_type = ""
  /\ pc = "idle"
  /\ call = NoCall
  /\ searches = <<>>
  /\ outcome = NoOutcome
  /\ search = NoSearch
  /\ threads = [t \in Threads |-> IdleThread]

\* a call on the roster ends with result r = [status, roster]
RosterEnds(op, args, r) ==
  /\ call' = [op |-> op, args |-> args]
  /\ outcome' = IF r.status = "ok" THEN Returned(<<>>, <<>>)
                ELSE Raised(r.status, <<>>)
  /\ before' = lone_roster
  /\ lone_roster' = r.roster
  /\ UNCHANGED <<order, rounds, picks, undrafted>>
  /\ UNCHANGED <<ctorVars, mapperVars, pc, searches, search, threads>>

AddPlayer(player) ==
  RosterEnds("add_player", <<player>>, add_player(lone_roster, player))

RemovePlayer(player) ==
  RosterEnds("remove_player", <<player>>,
             [status |-> "ok", roster |-> remove_player(lone_roster, player)])

MovePlayer(player, roster_spot) ==
  RosterEnds("move_player", <<player, roster_spot>>,
             move_player(lone_roster, player, roster_spot))

NextRoster ==
  \/ \E player \in DraftPlayers : AddPlayer(player)
  \/ \E player \in DraftPlayers : RemovePlayer(player)
  \/ \E player \in DraftPlayers, roster_spot \in RosterSpots :
       MovePlayer(player, roster_spot)

SpecRoster == InitRoster /\ [][NextRoster]_vars

\* the players of a list other than the one named, in their order
Others(l, player) == SelectSeq(l, LAMBDA q : q # player)

\* the last call was move_player of a player then on the roster to a spot that
\* suits the player and then had room
MoveAllowed ==
  /\ call.op = "move_player"
  /\ OnRoster(before, call.args[1])
  /\ is_roster_eligible(call.args[1], call.args[2])
  /\ Len(before.players[call.args[2]]) < before.settings[call.args[2]]

\* C26: move_player(player, spot), when the player is on the roster, suits the
\* spot and the spot has room, leaves the player in spot and in no other spot
\* and every other player where it was; when the spot is full, the player does
\* not suit it or is not on the roster, it raises RuntimeError and the roster
\* is as it was.
C26_MovePlayer ==
  call.op = "move_player" =>
    IF MoveAllowed
    THEN /\ outcome.status = "ok"
         /\ Contains(lone_roster.players[call.args[2]], call.args[1])
         /\ \A spot \in RosterSpots \ {call.args[2]} :
              ~Contains(lone_roster.players[spot], call.args[1])
         /\ \A spot \in RosterSpots :
              Others(lone_roster.players[spot], call.args[1])
                = Others(before.players[spot], call.args[1])
    ELSE outcome.status = "RuntimeError" /\ lone_roster = before

\* the order of priority of the roster spots
SpotPriority ==
  <<"QB", "RB", "WR", "TE", "DST", "K", "FLEX", "QBFLEX", "BENCH", "IR">>

\* spot number i suited the player and held fewer players than its maximum
\* when the last call began
WasOpen(i) ==
  /\ is_roster_eligible(call.args[1], SpotPriority[i])
  /\ Len(before.players[SpotPriority[i]]) < before.settings[SpotPriority[i]]

\* C27: add_player puts the player in the first roster spot, in the order QB,
\* RB, WR, TE, DST, K, FLEX, QBFLEX, BENCH, IR, that the player is eligible
\* for and that holds fewer players than its maximum, and changes nothing
\* else; when there is no such spot it raises RuntimeError and the roster is
\* as it was.
C27_AddPlayerFirstOpenSpot ==
  call.op = "add_player" =>
    IF \E i \in DOMAIN SpotPriority : WasOpen(i)
    THEN /\ outcome.status = "ok"
         /\ \A i \in DOMAIN SpotPriority :
              lone_roster.players[SpotPriority[i]] =
                IF WasOpen(i) /\ \A j \in 1..(i - 1) : ~WasOpen(j)
                THEN Append(before.players[SpotPriority[i]], call.args[1])
                ELSE before.players[SpotPriority[i]]
         /\ lone_roster.settings = before.settings
    ELSE outcome.status = "RuntimeError" /\ lone_roster = before

\* C27: a running back was added with the RB spot taken and the FLEX, QBFLEX,
\* BENCH and IR spots all open to the player, and went to FLEX
C27_Witness ==
  /\ call.op = "add_player"
  /\ outcome.status = "ok"
  /\ ~WasOpen(2)
  /\ WasOpen(7) /\ WasOpen(8) /\ WasOpen(9) /\ WasOpen(10)
  /\ Len(lone_roster.players["FLEX"]) = Len(before.players["FLEX"]) + 1

\* the pick numbers made so far at which the team at place t of order picks
PicksOfTeam(t) ==
  {p \in DOMAIN picks : pick_num_to_team(Draft, p).team = t}

\* how often the player is on the roster, all spots taken together
TimesOnRoster(r, player) ==
  Cardinality({<<i, k>> \in (DOMAIN RosterSpot) \X (1..(Len(picks) + Len(undrafted))) :
                 /\ k \in DOMAIN r.players[RosterSpot[i]]
                 /\ r.players[RosterSpot[i]][k] = player})

\* C28: in every state reached by set_pick (next pick or replacement of a past
\* pick) and delete_picks calls, each team's roster holds exactly the players
\* now recorded at that team's pick numbers: a replaced player is no longer on
\* the roster, and no player of the undrafted list is on any roster.
C28_RostersMatchPicks ==
  /\ \A t \in DOMAIN order : \A player \in DraftPlayers :
       TimesOnRoster(order[t].roster, player)
         = Cardinality({p \in PicksOfTeam(t) : picks[p] = player})
  /\ \A i \in DOMAIN undrafted : \A t \in DOMAIN order :
       ~OnRoster(order[t].roster, undrafted[i])

\* the players of a list
Members(l) == {l[i] : i \in DOMAIN l}

\* no player is in the list twice
NoRepeats(l) == \A i, j \in DOMAIN l : l[i] = l[j] => i = j

\* C29: in every state reached by set_pick and delete_picks calls, the calls
\* that end in an error included, the undrafted list and the drafted list are
\* disjoint, hold no player twice, and together hold exactly the players of
\* the initial player pool.
C29_PoolPartitioned ==
  /\ Members(undrafted) \cap Members(picks) = {}
  /\ NoRepeats(undrafted)
  /\ NoRepeats(picks)
  /\ Members(undrafted) \cup Members(picks) = Members(PoolPlayers)

\* the last call was set_pick of an available player for the next pick (None
\* or picks + 1) on a draft with every pick made
NextPickOnComplete ==
  /\ call.op = "set_pick"
  /\ Contains(before.undrafted, call.args[1])
  /\ (call.args[2] = <<>> \/ call.args[2][1] = Len(before.picks) + 1)
  /\ Len(before.picks) = Len(before.order) * before.rounds

\* C30: the number of picks made is at most teams * rounds in every draft
\* state; set_pick for the next pick on a complete draft raises RuntimeError
\* and leaves picks, undrafted list and rosters as they were.
C30_PicksBounded ==
  /\ Len(picks) <= Len(order) * rounds
  /\ NextPickOnComplete => outcome.status = "RuntimeError" /\ Draft = before

\* C30: a draft of two rounds had both its picks made and a player was still
\* undrafted: the set_pick of that player for pick 3 ended in RuntimeError
C30_Witness ==
  /\ NextPickOnComplete
  /\ Len(before.picks) = 2
  /\ call.args[2] = <<3>>
  /\ outcome.status = "RuntimeError"
  /\ Len(picks) = 2

\* the rank the points mean of the call implies
RankMeanRefOfCall == points_to_rank_mean(Self, <<call.args[2]>>)[1]

\* the expectation of the rank under the rank probabilities of the call
ExpectedRankOfCall ==
  FSum([i \in 1..Len(smoothed_points) |-> FMul(I(i), RankProbsOfCall[i])])

\* the sum over the n ranks of probability_i * (rank_i - ref)^2
SpreadAbout(ref) ==
  FSum([i \in 1..Len(smoothed_points) |->
          FMul(RankProbsOfCall[i], FMul(FSub(I(i), ref), FSub(I(i), ref)))])

\* C31: points_to_rank_variance returns the sum over all n ranks of
\* rank_probability_i * (rank_i - ref)^2 with ref = points_to_rank_mean(
\* points_mean), the rank the points mean implies, not the
\* probability-weighted expectation of the per-rank distribution.
C31_VarianceAboutImpliedRank ==
  Ended("points_to_rank_variance") =>
    /\ outcome.status = "ok"
    /\ outcome.value = <<SpreadAbout(RankMeanRefOfCall)>>

\* C31: a call whose implied rank is not the expected rank: the value returned
\* is the spread about the implied rank and differs from the spread about the
\* expectation
C31_Witness ==
  /\ Ended("points_to_rank_variance")
  /\ FGt(call.args[1], I(0))
  /\ ~FEq(RankMeanRefOfCall, ExpectedRankOfCall)
  /\ outcome.value = <<SpreadAbout(RankMeanRefOfCall)>>
  /\ ~FEq(outcome.value[1], SpreadAbout(ExpectedRankOfCall))

\* a search of rank_to_points_variance is under way or has just ended
InSearch ==
  pc \in {"searching", "done"} /\ call.op = "rank_to_points_variance"

\* the points mean the search evaluates at: rank_to_points_mean(rank_mean)
SearchPointsMean == rank_to_points_mean(Self, <<call.args[2]>>)[1]

\* the points delta of one rank standard deviation above the rank mean
SearchDelta ==
  FSub(rank_to_points_mean(Self, <<FAdd(call.args[2], NpSqrt(call.args[1]))>>)[1],
       SearchPointsMean)

\* the absolute difference of points_to_rank_variance at the candidate x, taken
\* at the search's points mean, to the target rank variance
DistanceToTarget(x) ==
  FAbs(FSub(points_to_rank_variance(Self, x, SearchPointsMean).value[1],
            call.args[1]))

\* C32: rank_to_points_variance starts its search from the seed
\* (rank_to_points_mean(rank_mean + sqrt(rank_variance)) -
\* rank_to_points_mean(rank_mean))^2, evaluates every candidate variance through
\* points_to_rank_variance at points_mean = rank_to_points_mean(rank_mean), and
\* minimizes the absolute difference to the target rank_variance: the value of
\* every candidate it is handed and of every point it holds is that difference,
\* and the point it keeps as best has the lesser one.
C32_SearchSeedAndObjective ==
  InSearch =>
    /\ search.iterations = 0 =>
         /\ FMul(SearchDelta, SearchDelta) \in {search.sim[1], search.sim[2]}
         /\ \A x \in SearchXs : search.func[x] = DistanceToTarget(x)
    /\ \A i \in 1..2 : search.fsim[i] = DistanceToTarget(search.sim[i])
    /\ IsNaN(search.fsim[2]) \/ FLe(search.fsim[1], search.fsim[2])
    /\ (pc = "done" /\ outcome.status = "ok") => outcome.value = <<search.sim[1]>>

\* C32: a search from a seed that is not 0 has put a candidate in its simplex
\* beside the second point of its first simplex, the seed stretched by a
\* twentieth, and holds the point of the lesser difference as the better one
C32_Witness ==
  /\ InSearch
  /\ ~FEq(SearchDelta, I(0))
  /\ search.iterations >= 1
  /\ search.sim[1] = FMul(FMul(SearchDelta, SearchDelta), F(21, 20))
  /\ search.sim[2] \in SearchXs
  /\ FLt(search.fsim[1], search.fsim[2])

\* the kernel of the smoother, in hundredths, the centre in the middle
Kernel == <<0, 13, 63, 100, 63, 13, 0>>

\* the samples of the 7-sample window centred on i that lie in a table of n
\* points, as offsets from i
Available(n, i) == {o \in (-3)..3 : i + o \in 1..n}

\* the sum of the kernel's weights over the available samples, and the sum of
\* the weighted raw points
WeightOver(n, i) ==
  FSum([k \in 1..7 |-> IF k - 4 \in Available(n, i) THEN I(Kernel[k]) ELSE I(0)])
WeightedOver(n, i) ==
  FSum([k \in 1..7 |->
          IF k - 4 \in Available(n, i)
          THEN FMul(I(Kernel[k]), raw_points[i + k - 4]) ELSE I(0)])

\* C33 as stated: the smoother averages over a partial window at both ends of
\* the table: at every index, the first three and the last three included,
\* the smoothed value is the weighted average of the neighbours available in
\* the 7-sample window.
C33_PartialWindowsAveraged ==
  (constructed = "ok" /\ Len(raw_points) >= 2) =>
    \A i \in 1..Len(raw_points) :
      FMul(smoothed_points[i], WeightOver(Len(raw_points), i))
        = WeightedOver(Len(raw_points), i)

\* C33, amended: the smoother averages full windows only.  Where all 7 samples
\* of the window lie in the table the smoothed value is their weighted
\* average; at every other index, the first three and the last three of
\* every table, no average is formed and the smoothed value is the raw one.
C33_FullWindowsAveraged ==
  (constructed = "ok" /\ Len(raw_points) >= 2) =>
    \A i \in 1..Len(raw_points) :
      IF Available(Len(raw_points), i) = (-3)..3
      THEN FMul(smoothed_points[i], WeightOver(Len(raw_points), i))
             = WeightedOver(Len(raw_points), i)
      ELSE smoothed_points[i] = raw_points[i]

\* C33: a 7-point table whose middle value is the weighted average of the full
\* window and moved from the raw value, and whose first and last values are
\* the raw ones and not the averages over the partial windows
C33_Witness ==
  /\ constructed = "ok"
  /\ Len(raw_points) = 7
  /\ FMul(smoothed_points[4], WeightOver(7, 4)) = WeightedOver(7, 4)
  /\ smoothed_points[4] # raw_points[4]
  /\ smoothed_points[1] = raw_points[1]
  /\ FMul(smoothed_points[1], WeightOver(7, 1)) # WeightedOver(7, 1)
  /\ smoothed_points[7] = raw_points[7]
  /\ FMul(smoothed_points[7], WeightOver(7, 7)) # WeightedOver(7, 7)

====
